---- MODULE Spec2Model ----
(***************************************************************************)
(* A model of achievements-engine: the AchievementEngine state machine     *)
(* (update / reset / import / export over a synchronous store), the        *)
(* OfflineQueueStorage operation queue, the AsyncStorageAdapter cache, the  *)
(* functions importAchievementData and normalizeAchievements, two engines   *)
(* built from one configuration, and the EventEmitter.  Each part has its   *)
(* own specifications over the shared variables; the variables of the      *)
(* other parts are held constant.                                           *)
(***************************************************************************)
EXTENDS Integers, Sequences, FiniteSets, TLC

VARIABLES
    \* ---- AchievementEngine over a synchronous store -------------------
    metrics,               \* this.metrics: metric name -> working value
    unlockedAchievements,  \* this.unlockedAchievements: list of ids
    customSuffix,          \* generateId() result baked into the custom id
    storage,               \* this.storage: MemoryStorage or LocalStorage
    events,                \* notifications emitted by the last operation
    onErrorCalls,          \* config.onError invocations of the last operation
    lastOp,                \* the operation that produced this state
    emitCount,             \* per id: unlock notifications in this run of updates,
                           \* an id found unlocked when the run starts counting 1
    updatesOnly,           \* no import since construction or reset
    storeFailures,         \* storage calls that have thrown so far
    fresh,                 \* a fresh engine after import(export(this))
    \* ---- OfflineQueueStorage -------------------------------------------
    queue,                 \* this.queue
    persistedQueue,        \* localStorage[queueStorageKey]
    isOnline,              \* this.isOnline
    isSyncing,             \* this.isSyncing
    pending,               \* backend calls awaiting their continuation
    backend,               \* innerStorage contents
    backendUp,             \* whether the backend accepts calls
    nextId,                \* issue number given to the next write
    applied,               \* issue numbers of writes applied, in order
    writeResults,          \* per write call: "pending" or "resolved"
    pendingRead,           \* the read call whose promise has not settled
    lastRead,              \* what the last read call returned or threw
    instance,              \* number of the OfflineQueueStorage instance
    \* ---- AsyncStorageAdapter under an engine --------------------------
    cache,                 \* this.cache {metrics, unlocked, loaded}
    asyncStorage,          \* the wrapped asynchronous backend's contents
    initialLoad,           \* initializeCache: "pending", "loaded" or "failed"
    inFlight,              \* background calls not settled yet, in issue order
    adapterErrors,         \* calls of the injected onError so far
    aEngine,               \* the engine built on the adapter
    nextWrite,             \* issue number given to the next background call
    pendingWrites,         \* this.pendingWrites: issue numbers of the promises
    flushes,               \* flush() calls waiting on their Promise.all
    failedWrites,          \* issue numbers of the background calls rejected
    \* ---- importAchievementData as a function --------------------------
    importCall,            \* the last call: its arguments and its result
    \* ---- two engines built from one configuration --------------------
    twinA,                 \* first engine: metrics, unlocked, its custom id
                           \* suffix, unlock notifications emitted so far
    twinB,                 \* second engine, given the same update calls
    \* ---- EventEmitter --------------------------------------------------
    listeners,             \* this.listeners: channel -> handlers, in Set order
    onceListeners,         \* this.onceListeners: channel -> handlers
    subscribed,            \* per channel: the current subscriptions in the order
                           \* they were made
    deliveries,            \* handler invocations of the last call, in order
    emitOutcome,           \* the last call if an emit: channel, handlers that
                           \* threw, whether it raised
    \* ---- normalizeAchievements as a function -------------------------
    normCall,              \* the last call: its argument and its result
    \* ---- update() called from a subscriber during update() -----------
    frames                 \* the update calls in progress, innermost last: the
                           \* position of evaluateAchievements and its batch

engineVars == <<metrics, unlockedAchievements, customSuffix, storage, events,
                onErrorCalls, lastOp, emitCount, updatesOnly,
                storeFailures, fresh>>
readVars == <<pendingRead, lastRead>>
queueVars == <<queue, persistedQueue, isOnline, isSyncing, pending, backend,
               backendUp, nextId, applied, writeResults, readVars, instance>>
adapterVars == <<cache, asyncStorage, initialLoad, inFlight, adapterErrors, aEngine,
                 nextWrite, pendingWrites, flushes, failedWrites>>
importVars == <<importCall>>
twinVars == <<twinA, twinB>>
emitterVars == <<listeners, onceListeners, subscribed, deliveries, emitOutcome>>
normVars == <<normCall>>
reentryVars == <<frames>>
utilityVars == <<twinVars, emitterVars, normVars, reentryVars>>
vars == <<engineVars, queueVars, adapterVars, importVars, utilityVars>>

-----------------------------------------------------------------------------
(* Metric values.  A value is tagged with its JavaScript type; the payload  *)
(* is an integer code (a number, 1 for true, the index of a date/string).   *)

Num(n) == [t |-> "num", v |-> n]
Bool(b) == [t |-> "bool", v |-> b]
Str(s) == [t |-> "str", v |-> s]
DateV(d) == [t |-> "date", v |-> d]
TaggedDate(d) == [t |-> "tagdate", v |-> d]
Null == [t |-> "null", v |-> 0]
Undefined == [t |-> "undef", v |-> 0]

MetricNames == {"score", "done"}
\* The values update() is given for each metric: a number below the upper
\* threshold and one at it, a timestamp (a value of another type), true, null
UpdateValues(k) ==
    IF k = "score" THEN {Num(50), Num(100), DateV(1)} ELSE {Bool(1), Null}

EmptyObj == [k \in {} |-> Null]
Range(s) == {s[i] : i \in 1..Len(s)}

\* obj[key] in JavaScript: undefined when the key is absent
Get(obj, k) == IF k \in DOMAIN obj THEN obj[k] ELSE Undefined

\* value[0] of a history list ([] gives undefined)
First(h) == IF Len(h) > 0 THEN h[1] ELSE Undefined

-----------------------------------------------------------------------------
(* The achievement configuration, normalised.  The simple configuration is  *)
(*   score: { 100: .., 50: .. },  done: { 'true': .. },                     *)
(*   combo: { custom: { condition: m => typeof m.score === 'number'         *)
(*                                   && m.score >= 100 && m.done === true }}*)
(* Object.entries visits the groups in this order; within a group it        *)
(* visits the integer keys in ascending order, whatever order they were     *)
(* written in, and then the other keys as written.                          *)

\* The keys of the score group as the configuration declares them
DeclaredScoreKeys == <<100, 50>>

\* Object.entries over integer keys without the ascending enumeration
ownPropertyKeysAsDeclared(keys) == keys

\* The order in which Object.entries enumerates integer keys
ownPropertyKeys(keys) == SortSeq(keys, LAMBDA a, b : a < b)

CustomSuffixes == {1, 2}
CustomId(sfx) == IF sfx = 1 THEN "combo_custom_1" ELSE "combo_custom_2"
AchievementIds ==
    {"score_50", "score_100", "done_true"} \cup {CustomId(x) : x \in CustomSuffixes}

\* achievementId.includes('_custom_')
IncludesCustom(id) == id \in {CustomId(x) : x \in CustomSuffixes}

\* A normalizer whose visiting order depends on the generated suffix
normalizeAchievementsCustomFirst(sfx) ==
    IF sfx = 1
    THEN << [achievementId |-> "score_50", metric |-> "score", kind |-> "num", threshold |-> 50],
            [achievementId |-> "score_100", metric |-> "score", kind |-> "num", threshold |-> 100],
            [achievementId |-> "done_true", metric |-> "done", kind |-> "true", threshold |-> 0],
            [achievementId |-> CustomId(sfx), metric |-> "combo", kind |-> "custom", threshold |-> 0] >>
    ELSE << [achievementId |-> CustomId(sfx), metric |-> "combo", kind |-> "custom", threshold |-> 0],
            [achievementId |-> "score_50", metric |-> "score", kind |-> "num", threshold |-> 50],
            [achievementId |-> "score_100", metric |-> "score", kind |-> "num", threshold |-> 100],
            [achievementId |-> "done_true", metric |-> "done", kind |-> "true", threshold |-> 0] >>

normalizeAchievements(sfx) ==
    [i \in 1..Len(DeclaredScoreKeys) |->
        [achievementId |-> "score_" \o ToString(ownPropertyKeys(DeclaredScoreKeys)[i]),
         metric |-> "score", kind |-> "num",
         threshold |-> ownPropertyKeys(DeclaredScoreKeys)[i]]]
    \o << [achievementId |-> "done_true", metric |-> "done", kind |-> "true", threshold |-> 0],
           [achievementId |-> CustomId(sfx), metric |-> "combo", kind |-> "custom", threshold |-> 0] >>

\* createConfigHash(config.achievements): functions are dropped by
\* JSON.stringify, so the hash depends on the declared keys and titles only
createConfigHash == "h1"
OtherConfigHash == "h2"

\* The condition of the custom entry, on the metrics in simple form
ComboCondition(simple) ==
    /\ Get(simple, "score").t = "num"
    /\ Get(simple, "score").v >= 100
    /\ Get(simple, "done") = Bool(1)

\* achievement.isConditionMet(value, state)
isConditionMet(a, value, state) ==
    CASE a.kind = "num" -> value.t = "num" /\ value.v >= a.threshold
      [] a.kind = "true" -> value = Bool(1)
      [] a.kind = "custom" ->
            ComboCondition([k \in DOMAIN state.metrics |-> First(state.metrics[k])])

\* getMetricsAsArray(): Array.isArray(value) ? value : [value]
getMetricsAsArray(m) == [k \in DOMAIN m |-> <<m[k]>>]

\* The achievements evaluateAchievements() finds newly met, in visiting order
\* An eligibility test that looks at the bound metric only
shouldCheckAchievementDefinedOnly(a, m) == Get(m, a.metric) # Undefined

shouldCheckAchievement(a, m) ==
    Get(m, a.metric) # Undefined \/ IncludesCustom(a.achievementId)

NewlyUnlockedNoGuard(m, unl, sfx) ==
    LET state == [metrics |-> getMetricsAsArray(m), unlockedAchievements |-> unl]
        met == SelectSeq(normalizeAchievements(sfx),
                         LAMBDA a : /\ shouldCheckAchievement(a, m)
                                    /\ isConditionMet(a, Get(m, a.metric), state))
    IN  [i \in 1..Len(met) |-> met[i].achievementId]

newlyUnlockedAchievements(m, unl, sfx) ==
    LET state == [metrics |-> getMetricsAsArray(m), unlockedAchievements |-> unl]
        met == SelectSeq(normalizeAchievements(sfx),
                         LAMBDA a : /\ a.achievementId \notin Range(unl)
                                    /\ shouldCheckAchievement(a, m)
                                    /\ isConditionMet(a, Get(m, a.metric), state))
    IN  [i \in 1..Len(met) |-> met[i].achievementId]

-----------------------------------------------------------------------------
(* The synchronous stores.  MemoryStorage keeps what it is given;           *)
(* LocalStorage keeps one JSON document, dates wrapped as {__type:'Date'}.  *)

StorageKinds == {"memory", "local"}

\* LocalStorage.serializeValue followed by JSON.stringify
serializeValueUntagged(v) ==
    CASE v.t = "date" -> Str(v.v)
      [] v.t = "undef" -> Null
      [] OTHER -> v

serializeValue(v) ==
    CASE v.t = "date" -> TaggedDate(v.v)
      [] v.t = "undef" -> Null
      [] OTHER -> v

\* JSON.parse followed by LocalStorage.deserializeValue
deserializeValue(v) == IF v.t = "tagdate" THEN DateV(v.v) ELSE v

serializeMetrics(h) ==
    [k \in DOMAIN h |-> [i \in 1..Len(h[k]) |-> serializeValue(h[k][i])]]
deserializeMetrics(h) ==
    [k \in DOMAIN h |-> [i \in 1..Len(h[k]) |-> deserializeValue(h[k][i])]]

StoreGetMetrics(st) ==
    IF st.kind = "local" THEN deserializeMetrics(st.metrics) ELSE st.metrics
StoreGetUnlocked(st) == st.unlocked
StoreSetMetrics(st, h) ==
    IF st.kind = "local"
    THEN [st EXCEPT !.metrics = serializeMetrics(h)]
    ELSE [st EXCEPT !.metrics = h]
StoreSetUnlocked(st, unl) ==
    IF st.kind = "local"
    THEN [st EXCEPT !.metrics = serializeMetrics(deserializeMetrics(st.metrics)),
                    !.unlocked = unl]
    ELSE [st EXCEPT !.unlocked = unl]
StoreClear(st) == [st EXCEPT !.metrics = EmptyObj, !.unlocked = << >>]

\* loadFromStorage(): every metric is read at index 0 of its history list
loadFromStorage(st) ==
    [metrics |-> [k \in DOMAIN StoreGetMetrics(st) |-> First(StoreGetMetrics(st)[k])],
     unlocked |-> StoreGetUnlocked(st)]

\* saveToStorage(): setMetrics then setUnlockedAchievements; a throw of
\* either skips what follows and is caught.  fail names the call that throws.
saveToStorageRollback(st, m, unl, fail) ==
    IF fail = "none"
    THEN [store |-> StoreSetUnlocked(StoreSetMetrics(st, getMetricsAsArray(m)), unl),
          failed |-> FALSE, metrics |-> m, unlocked |-> unl]
    ELSE [store |-> st, failed |-> TRUE,
          metrics |-> loadFromStorage(st).metrics, unlocked |-> loadFromStorage(st).unlocked]

saveToStorage(st, m, unl, fail) ==
    CASE fail = "setMetrics" ->
            [store |-> st, failed |-> TRUE, metrics |-> m, unlocked |-> unl]
      [] fail = "setUnlocked" ->
            [store |-> StoreSetMetrics(st, getMetricsAsArray(m)), failed |-> TRUE,
             metrics |-> m, unlocked |-> unl]
      [] OTHER ->
            [store |-> StoreSetUnlocked(StoreSetMetrics(st, getMetricsAsArray(m)), unl),
             failed |-> FALSE, metrics |-> m, unlocked |-> unl]

-----------------------------------------------------------------------------
(* Export and import.  A JSON text is modelled by what JSON.parse makes of  *)
(* it: json is "bad" for an unparsable text and "null" for the text null;   *)
(* hasMetrics and hasUnlocked are FALSE for an object without the field;    *)
(* version "" and timestamp 0                                               *)
(* stand for a missing (falsy) field, configHash "" for an absent one; each *)
(* metric entry says whether it is an array.                                *)

\* What JSON.stringify then JSON.parse make of a value inside an array:
\* a Date becomes its ISO string (Date.prototype.toJSON), undefined null
IsoString(d) == Str(d)
JsonValue(v) ==
    CASE v.t = "date" -> IsoString(v.v)
      [] v.t = "undef" -> Null
      [] OTHER -> v

\* exportAchievementData(metrics, unlocked, configHash)
exportAchievementData(h, unl, hash) ==
    [json |-> "ok", version |-> "3.3.0", timestamp |-> 1,
     hasMetrics |-> TRUE,
     metrics |-> [k \in DOMAIN h |->
                    [arr |-> TRUE,
                     vals |-> [i \in 1..Len(h[k]) |-> JsonValue(h[k][i])]]],
     hasUnlocked |-> TRUE, unlockedAchievements |-> unl,
     configHash |-> hash]

\* An id that is not a string (a number in the JSON list)
NonStringId == "#7"

\* validateExportedData without the comparison of the configuration hashes
validateExportedDataNoHash(data, expectedConfigHash) ==
    (IF data.version = "" THEN <<"Missing version field">> ELSE << >>)
    \o (IF data.timestamp = 0 THEN <<"Missing timestamp field">> ELSE << >>)
    \o (IF ~data.hasMetrics THEN <<"Missing or invalid metrics field">> ELSE << >>)
    \o (IF ~data.hasUnlocked
        THEN <<"Missing or invalid unlockedAchievements field">> ELSE << >>)
    \o (IF data.hasMetrics /\ \E k \in DOMAIN data.metrics : ~data.metrics[k].arr
        THEN <<"Invalid metric format">> ELSE << >>)
    \o (IF data.hasUnlocked /\ NonStringId \in Range(data.unlockedAchievements)
        THEN <<"All achievement IDs must be strings">> ELSE << >>)

\* validateExportedData(data, expectedConfigHash): the errors, in order
validateExportedData(data, expectedConfigHash) ==
    (IF data.version = "" THEN <<"Missing version field">> ELSE << >>)
    \o (IF data.timestamp = 0 THEN <<"Missing timestamp field">> ELSE << >>)
    \o (IF ~data.hasMetrics THEN <<"Missing or invalid metrics field">> ELSE << >>)
    \o (IF ~data.hasUnlocked
        THEN <<"Missing or invalid unlockedAchievements field">> ELSE << >>)
    \o (IF expectedConfigHash # "" /\ data.configHash # ""
           /\ data.configHash # expectedConfigHash
        THEN <<"Configuration mismatch">> ELSE << >>)
    \o (IF data.hasMetrics /\ \E k \in DOMAIN data.metrics : ~data.metrics[k].arr
        THEN <<"Invalid metric format">> ELSE << >>)
    \o (IF data.hasUnlocked /\ NonStringId \in Range(data.unlockedAchievements)
        THEN <<"All achievement IDs must be strings">> ELSE << >>)

\* mergeMetricValues that always prefers the imported list
mergeMetricValuesImported(current, imported) == imported

\* mergeMetricValues(current, imported)
mergeMetricValues(current, imported) ==
    IF First(current).t = "num" /\ First(imported).t = "num"
    THEN (IF First(current).v >= First(imported).v THEN current ELSE imported)
    ELSE imported

\* mergeMetrics(current, imported)
mergeMetrics(current, imported) ==
    [k \in DOMAIN current \cup DOMAIN imported |->
        IF k \notin DOMAIN current THEN imported[k]
        ELSE IF k \notin DOMAIN imported THEN current[k]
        ELSE mergeMetricValues(current[k], imported[k])]

\* preserveMetrics(current, imported)
preserveMetrics(current, imported) ==
    [k \in DOMAIN current \cup DOMAIN imported |->
        IF k \in DOMAIN current THEN current[k] ELSE imported[k]]

\* Array.from(new Set([...a, ...b])): first occurrences, in order
RECURSIVE Dedup(_)
Dedup(s) ==
    IF s = << >> THEN << >>
    ELSE LET r == Dedup(SubSeq(s, 1, Len(s) - 1))
         IN  IF s[Len(s)] \in Range(r) THEN r ELSE Append(r, s[Len(s)])

\* The merged unlocked list of each strategy
mergedUnlockedImportedOnly(strategy, currentUnlocked, imported) == imported

mergedUnlocked(strategy, currentUnlocked, imported) ==
    IF strategy = "replace" THEN imported
    ELSE Dedup(currentUnlocked \o imported)

\* data.metrics as the code uses it after parsing: the entries' values
ImportedMetrics(data) == [k \in DOMAIN data.metrics |-> data.metrics[k].vals]

ImportFailure(errors) ==
    [success |-> FALSE, threw |-> FALSE, errors |-> errors,
     mergedMetrics |-> EmptyObj, mergedUnlocked |-> << >>]

\* The call ends with a TypeError instead of a result: data is null and a
\* field of it is read, or data.metrics / data.unlockedAchievements is
\* undefined and is enumerated, spread or measured
ImportThrows ==
    [success |-> FALSE, threw |-> TRUE, errors |-> << >>,
     mergedMetrics |-> EmptyObj, mergedUnlocked |-> << >>]

\* importAchievementData(jsonString, currentMetrics, currentUnlocked, options)
importAchievementData(data, currentMetrics, currentUnlocked, options) ==
    IF data.json = "bad" THEN ImportFailure(<<"Invalid JSON format">>)
    ELSE IF data.json = "null" THEN ImportThrows
    ELSE IF options.validate
            /\ validateExportedData(data, options.expectedConfigHash) # << >>
    THEN ImportFailure(validateExportedData(data, options.expectedConfigHash))
    ELSE IF options.mergeStrategy \notin {"replace", "merge", "preserve"}
    THEN ImportFailure(<<"Invalid merge strategy">>)
    ELSE IF ~data.hasMetrics \/ ~data.hasUnlocked THEN ImportThrows
    ELSE [success |-> TRUE, threw |-> FALSE, errors |-> << >>,
          mergedMetrics |->
             CASE options.mergeStrategy = "replace" -> ImportedMetrics(data)
               [] options.mergeStrategy = "merge" ->
                     mergeMetrics(currentMetrics, ImportedMetrics(data))
               [] OTHER -> preserveMetrics(currentMetrics, ImportedMetrics(data)),
          mergedUnlocked |->
             mergedUnlocked(options.mergeStrategy, currentUnlocked,
                            data.unlockedAchievements)]

\* AchievementEngine.import: options.merge selects 'merge', anything else 'replace'
internalOptions(merge, validateConfig) ==
    [mergeStrategy |-> IF merge THEN "merge" ELSE "replace",
     validate |-> validateConfig,
     expectedConfigHash |-> createConfigHash]

-----------------------------------------------------------------------------
(* AchievementEngine over a synchronous store.  The engine is single-       *)
(* threaded and each call runs to completion, so each call is one action.   *)
(* config.onError is configured.                                            *)

MaxEmit == 2
MaxStoreFailures == 1
KeyOrder == <<"score", "done">>
SaveFailures == {"none", "setMetrics", "setUnlocked"}

Event(type, key) == [type |-> type, key |-> key]
\* A state:changed notification that carries the metrics only
StateChangedMetricsOnly(h, unl) ==
    [type |-> "state:changed", key |-> "", metrics |-> h, unlocked |-> << >>]

\* The state:changed notification with the state it carries
StateChanged(h, unl) ==
    [type |-> "state:changed", key |-> "", metrics |-> h, unlocked |-> unl]
NoOp(op) == [op |-> op, fail |-> "none", ok |-> TRUE, strategy |-> ""]
NoFresh == [set |-> FALSE, success |-> FALSE, metrics |-> EmptyObj, unlocked |-> << >>]

EmptyStore(kind) == [kind |-> kind, metrics |-> EmptyObj, unlocked |-> << >>]

\* States an earlier engine with this configuration left in the store
SavedStates ==
    { [metrics |-> EmptyObj, unlocked |-> << >>],
      [metrics |-> [k \in {"score"} |-> Num(100)],
       unlocked |-> <<"score_50", "score_100">>],
      [metrics |-> [k \in {"score", "done"} |-> IF k = "score" THEN Num(100) ELSE Bool(1)],
       unlocked |-> <<"score_50", "score_100", "done_true", "combo_custom_1">>] }

InitialStores ==
    { saveToStorage(EmptyStore(kind), s.metrics, s.unlocked, "none").store :
        kind \in StorageKinds, s \in SavedStates }

\* The arguments of update(): no key, one key with each of its values, and
\* both keys at their thresholds
UpdateInputs ==
    UNION { {u \in [D -> UNION {UpdateValues(k) : k \in MetricNames}] :
                \A k \in D : u[k] \in UpdateValues(k)} : D \in {{}, {"score"}, {"done"}} }
    \cup {[k \in MetricNames |-> IF k = "score" THEN Num(100) ELSE Bool(1)]}

\* oldValue !== value: by value for primitives, by identity for Date objects
\* (the caller passes a new Date object)
StrictNotEqual(old, new) == old # new \/ new.t = "date"

\* The metric:updated notification with the values it carries
MetricUpdated(key, old, new) ==
    [type |-> "metric:updated", key |-> key, oldValue |-> old, newValue |-> new]

\* A notification for every key update(u) names, changed or not
MetricEventsForEveryKey(m, u) ==
    LET named == SelectSeq(KeyOrder, LAMBDA k : k \in DOMAIN u)
    IN  [i \in 1..Len(named) |-> MetricUpdated(named[i], Get(m, named[i]), u[named[i]])]

\* The metric:updated notifications of update(u), in key order
MetricEvents(m, u) ==
    LET changed == SelectSeq(KeyOrder,
                     LAMBDA k : k \in DOMAIN u /\ StrictNotEqual(Get(m, k), u[k]))
    IN  [i \in 1..Len(changed) |->
            MetricUpdated(changed[i], Get(m, changed[i]), u[changed[i]])]

UnlockEvents(newly) == [i \in 1..Len(newly) |-> Event("achievement:unlocked", newly[i])]

\* handleError(): the error notification (and config.onError)
ErrorEvents(failed, context) == IF failed THEN <<Event("error", context)>> ELSE << >>

Occurrences(seq, x) == Cardinality({i \in 1..Len(seq) : seq[i] = x})
Min(a, b) == IF a < b THEN a ELSE b

\* The count a run of updates starts with
AlreadyUnlocked(unl) ==
    [id \in AchievementIds |-> IF id \in Range(unl) THEN 1 ELSE 0]

EngineInit ==
    /\ storage \in InitialStores
    /\ customSuffix \in CustomSuffixes
    /\ metrics = loadFromStorage(storage).metrics
    /\ unlockedAchievements = loadFromStorage(storage).unlocked
    /\ events = << >>
    /\ onErrorCalls = 0
    /\ lastOp = NoOp("construct")
    /\ emitCount = AlreadyUnlocked(unlockedAchievements)
    /\ updatesOnly = TRUE
    /\ storeFailures = 0
    /\ fresh = NoFresh

\* The assignments of update(): this.metrics[key] = value for every key
assignMetrics(m, u) ==
    [k \in DOMAIN m \cup DOMAIN u |-> IF k \in DOMAIN u THEN u[k] ELSE m[k]]

\* The end of evaluateAchievements(): the batch is appended in one step
replaceByNewlyUnlocked(unl, newly) == newly

appendNewlyUnlocked(unl, newly) == IF Len(newly) > 0 THEN unl \o newly ELSE unl

\* update(newMetrics)
Update(u, fail) ==
    /\ fail # "none" => storeFailures < MaxStoreFailures
    /\ \E newly \in {newlyUnlockedAchievements(assignMetrics(metrics, u),
                                               unlockedAchievements, customSuffix)} :
       \E saved \in {saveToStorage(storage, assignMetrics(metrics, u),
                                   appendNewlyUnlocked(unlockedAchievements, newly),
                                   fail)} :
        /\ storeFailures' = storeFailures + (IF fail # "none" THEN 1 ELSE 0)
        /\ metrics' = saved.metrics
        /\ unlockedAchievements' = saved.unlocked
        /\ storage' = saved.store
        /\ events' = MetricEvents(metrics, u) \o UnlockEvents(newly)
                        \o ErrorEvents(saved.failed, "saveToStorage")
                        \o <<StateChanged(getMetricsAsArray(saved.metrics),
                                          saved.unlocked)>>
        /\ onErrorCalls' = IF saved.failed THEN 1 ELSE 0
        /\ lastOp' = [op |-> "update", fail |-> fail, ok |-> TRUE, strategy |-> ""]
        /\ emitCount' = [id \in AchievementIds |->
                            Min(emitCount[id] + Occurrences(newly, id), MaxEmit)]
        /\ fresh' = NoFresh
        /\ UNCHANGED <<customSuffix, updatesOnly, queueVars, adapterVars, importVars, utilityVars>>

\* reset() that returns from its catch: nothing is notified when clear throws
ResetReturningOnFailure(clearFails) ==
    /\ clearFails => storeFailures < MaxStoreFailures
    /\ storeFailures' = storeFailures + (IF clearFails THEN 1 ELSE 0)
    /\ metrics' = EmptyObj
    /\ unlockedAchievements' = << >>
    /\ storage' = IF clearFails THEN storage ELSE StoreClear(storage)
    /\ events' = IF clearFails THEN << >> ELSE <<StateChanged(EmptyObj, << >>)>>
    /\ onErrorCalls' = 0
    /\ lastOp' = [op |-> "reset", fail |-> IF clearFails THEN "clear" ELSE "none",
                  ok |-> TRUE, strategy |-> ""]
    /\ emitCount' = AlreadyUnlocked(<< >>)
    /\ updatesOnly' = TRUE
    /\ fresh' = NoFresh
    /\ UNCHANGED <<customSuffix, queueVars, adapterVars, importVars, utilityVars>>

\* reset()
Reset(clearFails) ==
    /\ clearFails => storeFailures < MaxStoreFailures
    /\ storeFailures' = storeFailures + (IF clearFails THEN 1 ELSE 0)
    /\ metrics' = EmptyObj
    /\ unlockedAchievements' = << >>
    /\ storage' = IF clearFails THEN storage ELSE StoreClear(storage)
    /\ events' = ErrorEvents(clearFails, "reset") \o <<StateChanged(EmptyObj, << >>)>>
    /\ onErrorCalls' = IF clearFails THEN 1 ELSE 0
    /\ lastOp' = [op |-> "reset", fail |-> IF clearFails THEN "clear" ELSE "none",
                  ok |-> TRUE, strategy |-> ""]
    /\ emitCount' = AlreadyUnlocked(<< >>)
    /\ updatesOnly' = TRUE
    /\ fresh' = NoFresh
    /\ UNCHANGED <<customSuffix, queueVars, adapterVars, importVars, utilityVars>>

\* Snapshots handed to import(): the export of an engine state, one produced
\* under another configuration, one without a version, one unparsable text
ExportedSnapshot ==
    exportAchievementData([k \in {"score"} |-> <<Num(100)>>],
                          <<"score_50", "score_100">>, createConfigHash)
ImportInputs ==
    { ExportedSnapshot,
      exportAchievementData([k \in {"score"} |-> <<Num(50)>>], <<"score_50">>,
                            OtherConfigHash),
      [ExportedSnapshot EXCEPT !.version = ""],
      [ExportedSnapshot EXCEPT !.json = "bad"] }

\* The conversion of merged metrics back to the working form in import()
toWorkingForm(h) == [k \in DOMAIN h |-> First(h[k])]

\* import() without the test of result.success: the result is applied, saved
\* and notified whatever it is
ImportWithoutSuccessTest(data, merge, validateConfig, fail) ==
    /\ fail # "none" => storeFailures < MaxStoreFailures
    /\ \E result \in {importAchievementData(data, getMetricsAsArray(metrics),
                                            unlockedAchievements,
                                            internalOptions(merge, validateConfig))} :
       \E saved \in {saveToStorage(storage, toWorkingForm(result.mergedMetrics),
                                   result.mergedUnlocked, fail)} :
        /\ storeFailures' = storeFailures + (IF fail # "none" THEN 1 ELSE 0)
        /\ lastOp' = [op |-> "import", fail |-> fail, ok |-> result.success,
                      strategy |-> internalOptions(merge, validateConfig).mergeStrategy]
        /\ fresh' = NoFresh
        /\ metrics' = saved.metrics
        /\ unlockedAchievements' = saved.unlocked
        /\ storage' = saved.store
        /\ events' = ErrorEvents(saved.failed, "saveToStorage")
                        \o <<StateChanged(getMetricsAsArray(saved.metrics),
                                          saved.unlocked)>>
        /\ onErrorCalls' = IF saved.failed THEN 1 ELSE 0
        /\ emitCount' = AlreadyUnlocked(saved.unlocked)
        /\ updatesOnly' = FALSE
        /\ UNCHANGED <<customSuffix, queueVars, adapterVars, importVars, utilityVars>>

\* import(jsonString, options)
Import(data, merge, validateConfig, fail) ==
    /\ fail # "none" => storeFailures < MaxStoreFailures
    /\ \E result \in {importAchievementData(data, getMetricsAsArray(metrics),
                                            unlockedAchievements,
                                            internalOptions(merge, validateConfig))} :
        /\ result.success \/ fail = "none"
        /\ storeFailures' = storeFailures + (IF fail # "none" THEN 1 ELSE 0)
        /\ lastOp' = [op |-> "import", fail |-> fail, ok |-> result.success,
                      strategy |-> internalOptions(merge, validateConfig).mergeStrategy]
        /\ fresh' = NoFresh
        /\ UNCHANGED <<customSuffix, queueVars, adapterVars, importVars, utilityVars>>
        /\ IF result.success
           THEN \E saved \in {saveToStorage(storage, toWorkingForm(result.mergedMetrics),
                                            result.mergedUnlocked, fail)} :
                /\ metrics' = saved.metrics
                /\ unlockedAchievements' = saved.unlocked
                /\ storage' = saved.store
                /\ events' = ErrorEvents(saved.failed, "saveToStorage")
                                \o <<StateChanged(getMetricsAsArray(saved.metrics),
                                          saved.unlocked)>>
                /\ onErrorCalls' = IF saved.failed THEN 1 ELSE 0
                /\ emitCount' = AlreadyUnlocked(saved.unlocked)
                /\ updatesOnly' = FALSE
           ELSE /\ events' = << >>
                /\ onErrorCalls' = 0
                /\ UNCHANGED <<metrics, unlockedAchievements, storage, emitCount,
                               updatesOnly>>

\* fresh = new AchievementEngine(sameConfig); fresh.import(engine.export())
FreshImport ==
    /\ updatesOnly
    /\ ~fresh.set
    /\ \E result \in {importAchievementData(
                         exportAchievementData(getMetricsAsArray(metrics),
                                               unlockedAchievements, createConfigHash),
                         getMetricsAsArray(EmptyObj), << >>,
                         internalOptions(FALSE, TRUE))} :
          fresh' = [set |-> TRUE, success |-> result.success,
                    metrics |-> toWorkingForm(result.mergedMetrics),
                    unlocked |-> result.mergedUnlocked]
    /\ UNCHANGED <<metrics, unlockedAchievements, customSuffix, storage, events,
                   onErrorCalls, lastOp, emitCount, updatesOnly, storeFailures,
                   queueVars, adapterVars, importVars, utilityVars>>

EngineNext ==
    \/ \E u \in UpdateInputs, fail \in SaveFailures : Update(u, fail)
    \/ \E clearFails \in BOOLEAN : Reset(clearFails)
    \/ \E data \in ImportInputs, merge \in BOOLEAN, validateConfig \in BOOLEAN,
          fail \in SaveFailures : Import(data, merge, validateConfig, fail)
    \/ FreshImport

-----------------------------------------------------------------------------
(* Properties of the engine over a synchronous store.                       *)

\* A step of update(): only update() records its name and leaves no fresh copy
UpdateStep == lastOp'.op = "update" /\ fresh' = NoFresh
UnlockedSet == Range(unlockedAchievements)
HasEvent(evs, type, key) ==
    \E i \in 1..Len(evs) : evs[i].type = type /\ evs[i].key = key

C2_UpdateKeepsUnlocked ==
    [][UpdateStep => UnlockedSet \subseteq Range(unlockedAchievements')]_vars

\* An update wrote a value below the threshold, or of another type, and the
\* id is still unlocked
C2_Witness ==
    /\ lastOp.op = "update"
    /\ Get(metrics, "score") \in {Num(50), DateV(1)}
    /\ "score_100" \in UnlockedSet

\* C3 as stated: every step that is not a reset leaves each previously
\* unlocked id unlocked.
C3_OnlyResetLosesIds ==
    [][lastOp'.op # "reset" => UnlockedSet \subseteq Range(unlockedAchievements')]_vars

\* C3: an id leaves the unlocked set only in a reset or in a successful
\* import with the replace strategy; updates, imports with the merge
\* strategy and rejected imports keep every unlocked id.
ReplaceImportStep ==
    lastOp'.op = "import" /\ lastOp'.ok /\ lastOp'.strategy = "replace"
C3_OnlyResetOrReplaceLosesIds ==
    [][(lastOp'.op # "reset" /\ ~ReplaceImportStep)
          => UnlockedSet \subseteq Range(unlockedAchievements')]_vars

\* A merge import of a snapshot without done_true kept done_true
C3_Witness ==
    /\ lastOp.op = "import"
    /\ lastOp.ok
    /\ lastOp.strategy = "merge"
    /\ "done_true" \in UnlockedSet
    /\ "score_100" \in UnlockedSet

C9_FailedSaveKeepsState ==
    [][UpdateStep =>
          /\ \E u \in UpdateInputs :
                /\ metrics' = assignMetrics(metrics, u)
                /\ unlockedAchievements' =
                      appendNewlyUnlocked(unlockedAchievements,
                          newlyUnlockedAchievements(assignMetrics(metrics, u),
                                                    unlockedAchievements, customSuffix))
          /\ events'[Len(events')].type = "state:changed"
          /\ lastOp'.fail # "none" =>
                (HasEvent(events', "error", "saveToStorage") /\ onErrorCalls' = 1)
          /\ (lastOp'.fail = "none" /\ storeFailures > 0) =>
                (/\ ~HasEvent(events', "error", "saveToStorage")
                 /\ loadFromStorage(storage') =
                       [metrics |-> metrics', unlocked |-> unlockedAchievements'])
    ]_vars

\* An update unlocked an id while the store's setMetrics threw: the id is
\* unlocked in memory, was notified, and the store does not have it
C9_Witness ==
    /\ lastOp.op = "update"
    /\ lastOp.fail = "setMetrics"
    /\ Get(metrics, "score") = Num(100)
    /\ "score_100" \in UnlockedSet
    /\ "score_100" \notin Range(StoreGetUnlocked(storage))
    /\ HasEvent(events, "achievement:unlocked", "score_100")
    /\ HasEvent(events, "error", "saveToStorage")
    /\ onErrorCalls = 1

\* C10 as stated: importing the export of a state reached by updates into a
\* fresh engine succeeds and gives it identical metrics and unlocked ids.
C10_RoundTrip ==
    fresh.set =>
        /\ fresh.success
        /\ fresh.metrics = metrics
        /\ fresh.unlocked = unlockedAchievements

\* C12: an import that returns a failure (an unparsable text, a fingerprint
\* mismatch, a structural validation failure) leaves the metrics, the
\* unlocked ids and the store's contents as they were and emits no
\* state-changed notification (nor any other).
RejectedImportStep == lastOp'.op = "import" /\ ~lastOp'.ok /\ fresh' = NoFresh
C12_RejectedImportChangesNothing ==
    [][RejectedImportStep =>
          /\ metrics' = metrics
          /\ unlockedAchievements' = unlockedAchievements
          /\ storage' = storage
          /\ loadFromStorage(storage') = loadFromStorage(storage)
          /\ ~HasEvent(events', "state:changed", "")
          /\ events' = << >>
    ]_vars

\* An engine holding metrics and unlocked ids, in memory and in its store,
\* rejected an import and notified nothing
C12_Witness ==
    /\ lastOp.op = "import"
    /\ ~lastOp.ok
    /\ Get(metrics, "score") = Num(100)
    /\ "done_true" \in UnlockedSet
    /\ loadFromStorage(storage) = [metrics |-> metrics, unlocked |-> unlockedAchievements]
    /\ events = << >>

\* C20: a reset empties the metrics and the unlocked ids in memory
\* together, calls the store's clear, and emits exactly one state-changed
\* notification, the last one, carrying the empty state; when clear throws,
\* the failure is reported by the error notification and one call of the
\* error callback, the in-memory state is empty all the same and the
\* state-changed notification is emitted all the same.
ResetStep == lastOp'.op = "reset" /\ fresh' = NoFresh
C20_ResetEmptiesAndNotifies ==
    [][ResetStep =>
          /\ metrics' = EmptyObj
          /\ unlockedAchievements' = << >>
          /\ Cardinality({i \in 1..Len(events') : events'[i].type = "state:changed"}) = 1
          /\ events'[Len(events')] = StateChanged(EmptyObj, << >>)
          /\ lastOp'.fail = "none" =>
                /\ StoreGetMetrics(storage') = EmptyObj
                /\ StoreGetUnlocked(storage') = << >>
                /\ ~HasEvent(events', "error", "reset")
                /\ onErrorCalls' = 0
          /\ lastOp'.fail = "clear" =>
                /\ HasEvent(events', "error", "reset")
                /\ onErrorCalls' = 1
    ]_vars

\* A reset whose clear threw: the store still holds unlocked ids, memory is
\* empty, and the error and then the state-changed notification were sent
C20_Witness ==
    /\ lastOp.op = "reset"
    /\ lastOp.fail = "clear"
    /\ metrics = EmptyObj
    /\ unlockedAchievements = << >>
    /\ StoreGetUnlocked(storage) # << >>
    /\ events = <<Event("error", "reset"), StateChanged(EmptyObj, << >>)>>
    /\ onErrorCalls = 1

\* The declared achievements of the engine's configuration, the metric each
\* is declared under, and its predicate as the configuration states it
DeclaredIds == {"score_50", "score_100", "done_true", CustomId(customSuffix)}
BoundMetric(id) ==
    CASE id \in {"score_50", "score_100"} -> "score"
      [] id = "done_true" -> "done"
      [] OTHER -> "combo"
AtLeast(m, k, n) == k \in DOMAIN m /\ m[k].t = "num" /\ m[k].v >= n
PredicateHolds(id, m) ==
    CASE id = "score_50" -> AtLeast(m, "score", 50)
      [] id = "score_100" -> AtLeast(m, "score", 100)
      [] id = "done_true" -> "done" \in DOMAIN m /\ m["done"] = Bool(1)
      [] OTHER -> AtLeast(m, "score", 100) /\ "done" \in DOMAIN m /\ m["done"] = Bool(1)
Eligible(id, m) ==
    (BoundMetric(id) \in DOMAIN m /\ m[BoundMetric(id)] # Undefined) \/ IncludesCustom(id)

\* C32: the ids an update newly unlocks are exactly the declared
\* achievements, over the whole configuration, that were not yet unlocked,
\* are eligible (bound metric defined, or id marked custom) and whose
\* predicate holds on the metrics after the update; they are added after the
\* ids that were unlocked before.
C32_NewlyUnlockedExact ==
    [][UpdateStep =>
          /\ Range(unlockedAchievements') \ Range(unlockedAchievements)
                = {id \in DeclaredIds : /\ id \notin Range(unlockedAchievements)
                                        /\ Eligible(id, metrics')
                                        /\ PredicateHolds(id, metrics')}
          /\ SubSeq(unlockedAchievements', 1, Len(unlockedAchievements))
                = unlockedAchievements]_vars

\* An update that named only score unlocked the custom achievement, whose
\* predicate also reads done and whose bound metric has no value
C32_Witness ==
    /\ lastOp.op = "update"
    /\ fresh = NoFresh
    /\ HasEvent(events, "metric:updated", "score")
    /\ ~HasEvent(events, "metric:updated", "done")
    /\ HasEvent(events, "achievement:unlocked", CustomId(customSuffix))
    /\ "combo" \notin DOMAIN metrics
    /\ Get(metrics, "done") = Bool(1)
    /\ CustomId(customSuffix) \in UnlockedSet

\* The ids of the unlock notifications among evs, in emission order
UnlockIds(evs) ==
    LET unlocks == SelectSeq(evs, LAMBDA e : e.type = "achievement:unlocked")
    IN  [i \in 1..Len(unlocks) |-> unlocks[i].key]
\* ids lists its members in the order in which order lists them
InOrder(ids, order) == ids = SelectSeq(order, LAMBDA x : x \in Range(ids))
DeclarationOrder ==
    [i \in 1..Len(DeclaredScoreKeys) |-> "score_" \o ToString(DeclaredScoreKeys[i])]
    \o <<"done_true", CustomId(customSuffix)>>

MetricUpdates(evs) == SelectSeq(evs, LAMBDA e : e.type = "metric:updated")

\* C35: an update emits a metric-changed notification for a key exactly
\* when the value it writes is not strictly equal to the stored one (a Date
\* object passed by the caller is never strictly equal to the stored one):
\* at most one per key, one for every key whose value changed, each carrying
\* the value stored before and the value stored after; an update that emits
\* none still evaluates every achievement.
C35_MetricChangedExactlyOnChange ==
    [][UpdateStep =>
          LET ups == MetricUpdates(events')
          IN  /\ \A i, j \in 1..Len(ups) : ups[i].key = ups[j].key => i = j
              /\ \A i \in 1..Len(ups) :
                    /\ ups[i].oldValue = Get(metrics, ups[i].key)
                    /\ ups[i].newValue = Get(metrics', ups[i].key)
                    /\ ups[i].oldValue # ups[i].newValue \/ ups[i].newValue.t = "date"
              /\ \A k \in DOMAIN metrics' :
                    Get(metrics, k) # metrics'[k] =>
                        \E i \in 1..Len(ups) : ups[i].key = k
              /\ ups = << >> =>
                    Range(unlockedAchievements') \ Range(unlockedAchievements)
                        = {id \in DeclaredIds : /\ id \notin Range(unlockedAchievements)
                                                /\ Eligible(id, metrics')
                                                /\ PredicateHolds(id, metrics')}]_vars

\* An update that changed no value emitted no metric-changed notification
\* and unlocked the custom achievement, whose predicate already held on the
\* stored metrics
C35_WitnessSameValue ==
    /\ lastOp.op = "update"
    /\ fresh = NoFresh
    /\ MetricUpdates(events) = << >>
    /\ Get(metrics, "score") = Num(100)
    /\ HasEvent(events, "achievement:unlocked", CustomId(customSuffix))

\* An update changed a value and its notification carries the old and the
\* new value
C35_Witness ==
    /\ lastOp.op = "update"
    /\ fresh = NoFresh
    /\ \E i \in 1..Len(events) :
          /\ events[i].type = "metric:updated"
          /\ events[i].key = "score"
          /\ events[i].oldValue = Num(50)
          /\ events[i].newValue = Num(100)

visitedBeforeThrow(m, unl, sfx) ==
    LET state == [metrics |-> getMetricsAsArray(m), unlockedAchievements |-> unl]
        met == SelectSeq(normalizeAchievements(sfx),
                         LAMBDA a : /\ a.kind # "custom"
                                    /\ a.achievementId \notin Range(unl)
                                    /\ shouldCheckAchievement(a, m)
                                    /\ isConditionMet(a, Get(m, a.metric), state))
    IN  [i \in 1..Len(met) |-> met[i].achievementId]

UpdateConditionThrows(u) ==
    \E newly \in {visitedBeforeThrow(assignMetrics(metrics, u), unlockedAchievements,
                                      customSuffix)} :
        /\ metrics' = assignMetrics(metrics, u)
        /\ events' = MetricEvents(metrics, u) \o UnlockEvents(newly)
        /\ onErrorCalls' = 0
        /\ lastOp' = [op |-> "update", fail |-> "condition", ok |-> FALSE,
                      strategy |-> ""]
        /\ emitCount' = [id \in AchievementIds |->
                            Min(emitCount[id] + Occurrences(newly, id), MaxEmit)]
        /\ fresh' = NoFresh
        /\ UNCHANGED <<unlockedAchievements, storage, customSuffix, updatesOnly,
                       storeFailures, queueVars, adapterVars, importVars, utilityVars>>

ThrowingNext == \E u \in UpdateInputs : UpdateConditionThrows(u)

\* C24 as stated: when a condition throws while update evaluates it, update
\* returns to its caller without the exception and an error notification is
\* emitted.
C24_ConditionErrorContained ==
    (lastOp.op = "update" /\ lastOp.fail = "condition")
        => /\ lastOp.ok
           /\ \E i \in 1..Len(events) : events[i].type = "error"

\* The in-memory state a subscriber reads (getMetrics(), getUnlocked()) while
\* each notification of update(u) is delivered.  Delivery is synchronous:
\* metric:updated is emitted inside the loop that assigns the keys, right
\* after its own key; achievement:unlocked inside evaluateAchievements,
\* before the batch is appended; error and state:changed after both.
Position(k) == CHOOSE i \in 1..Len(KeyOrder) : KeyOrder[i] = k
assignedUpTo(m, u, k) ==
    assignMetrics(m, [j \in {x \in DOMAIN u : Position(x) <= Position(k)} |-> u[j]])
observedDuringUpdate(m, unl, u, newly, failed) ==
    LET changed == SelectSeq(KeyOrder,
                     LAMBDA k : k \in DOMAIN u /\ StrictNotEqual(Get(m, k), u[k]))
        done == [metrics |-> assignMetrics(m, u),
                 unlocked |-> appendNewlyUnlocked(unl, newly)]
    IN  [i \in 1..Len(changed) |->
            [metrics |-> assignedUpTo(m, u, changed[i]), unlocked |-> unl]]
        \o [i \in 1..Len(newly) |-> [metrics |-> assignMetrics(m, u), unlocked |-> unl]]
        \o (IF failed THEN <<done>> ELSE << >>)
        \o <<done>>

\* C23 as stated, for update: at every point where a subscriber observes
\* it, and at the end of the operation, the in-memory state holds either all
\* of the update's changes to metrics and unlocked or none of them, whether
\* or not the save fails.
C23_UpdateAllOrNothing ==
    [][\A u \in UpdateInputs, fail \in SaveFailures :
          Update(u, fail) =>
            LET newly == newlyUnlockedAchievements(assignMetrics(metrics, u),
                                                   unlockedAchievements, customSuffix)
                seen == observedDuringUpdate(metrics, unlockedAchievements, u, newly,
                                             fail # "none")
                none == [metrics |-> metrics, unlocked |-> unlockedAchievements]
                all == [metrics |-> metrics', unlocked |-> unlockedAchievements']
            IN  /\ Len(seen) = Len(events')
                /\ \A i \in 1..Len(seen) : seen[i] \in {none, all}]_vars

-----------------------------------------------------------------------------
(* Values the variables of a part hold while another part runs.             *)

QueueHeld ==
    /\ queue = << >>
    /\ persistedQueue = << >>
    /\ isOnline = TRUE
    /\ isSyncing = FALSE
    /\ pending = {}
    /\ backend = [metrics |-> 0, unlocked |-> 0]
    /\ backendUp = TRUE
    /\ nextId = 1
    /\ applied = << >>
    /\ writeResults = << >>
    /\ pendingRead = [called |-> FALSE]
    /\ lastRead = [result |-> "none"]
    /\ instance = 1

AdapterHeld ==
    /\ cache = [metrics |-> EmptyObj, unlocked |-> << >>, loaded |-> FALSE]
    /\ asyncStorage = [metrics |-> EmptyObj, unlocked |-> << >>]
    /\ initialLoad = "pending"
    /\ inFlight = << >>
    /\ adapterErrors = 0
    /\ aEngine = [metrics |-> EmptyObj, unlocked |-> << >>, ops |-> 0]
    /\ nextWrite = 1
    /\ pendingWrites = << >>
    /\ flushes = {}
    /\ failedWrites = {}

ImportHeld == importCall = [called |-> FALSE]
NewTwin(sfx) == [metrics |-> EmptyObj, unlocked |-> << >>, sfx |-> sfx, notified |-> << >>]
TwinHeld == twinA = NewTwin(1) /\ twinB = NewTwin(1)
EmitterHeld ==
    /\ listeners = << >>
    /\ onceListeners = << >>
    /\ subscribed = << >>
    /\ deliveries = << >>
    /\ emitOutcome = [called |-> FALSE]
NormHeld == normCall = [called |-> FALSE]
ReentryHeld == frames = << >>
UtilityHeld == TwinHeld /\ EmitterHeld /\ NormHeld /\ ReentryHeld

EngineHeld ==
    /\ metrics = EmptyObj
    /\ unlockedAchievements = << >>
    /\ customSuffix = 1
    /\ storage = EmptyStore("memory")
    /\ events = << >>
    /\ onErrorCalls = 0
    /\ lastOp = NoOp("construct")
    /\ emitCount = AlreadyUnlocked(<< >>)
    /\ updatesOnly = TRUE
    /\ storeFailures = 0
    /\ fresh = NoFresh

Init == EngineInit /\ QueueHeld /\ AdapterHeld /\ ImportHeld /\ UtilityHeld
Next == EngineNext
Spec == Init /\ [][Next]_vars

\* The engine under a configuration whose custom condition throws
InitThrowing == EngineInit /\ QueueHeld /\ AdapterHeld /\ ImportHeld /\ UtilityHeld
SpecThrowing == InitThrowing /\ [][ThrowingNext]_vars

\* The engine over a store that another writer of the storage contract has
\* filled: the history list of a metric may hold more than one value
HistoryStores ==
    InitialStores
    \cup { StoreSetUnlocked(
               StoreSetMetrics(EmptyStore(kind),
                               [k \in {"score"} |-> <<Num(100), Num(50)>>]),
               <<"score_50", "score_100">>) : kind \in StorageKinds }
HistoryInit ==
    /\ storage \in HistoryStores
    /\ customSuffix \in CustomSuffixes
    /\ metrics = loadFromStorage(storage).metrics
    /\ unlockedAchievements = loadFromStorage(storage).unlocked
    /\ events = << >>
    /\ onErrorCalls = 0
    /\ lastOp = NoOp("construct")
    /\ emitCount = AlreadyUnlocked(unlockedAchievements)
    /\ updatesOnly = TRUE
    /\ storeFailures = 0
    /\ fresh = NoFresh
HistoryNext == \E u \in UpdateInputs : Update(u, "none")
InitHistory == HistoryInit /\ QueueHeld /\ AdapterHeld /\ ImportHeld /\ UtilityHeld
SpecHistory == InitHistory /\ [][HistoryNext]_vars

\* C31 as stated: the working form and the history form convert without
\* loss in both directions: the store an update has written loads back as
\* the engine's working values, and the stored list of a metric the update
\* did not change is the list that was stored before.
C31_FormsConvertLosslessly ==
    [][UpdateStep =>
          /\ loadFromStorage(storage').metrics = metrics'
          /\ \A k \in DOMAIN metrics \cap DOMAIN metrics' :
                metrics'[k] = metrics[k]
                    => StoreGetMetrics(storage')[k] = StoreGetMetrics(storage)[k]]_vars

\* update() with a subscriber of achievement:unlocked that may call update()
\* again before it returns.  Notifications are delivered synchronously, so
\* the inner call runs to completion while the outer evaluateAchievements is
\* inside its loop.  A frame holds the position of that loop, its local
\* newlyUnlockedAchievements, the metricsInArrayFormat it computed when it
\* started, and whether the notification of the entry at pos is being
\* delivered.
MaxDepth == 2
Frame(pos, newly, snapshot, delivering) ==
    [pos |-> pos, newly |-> newly, snapshot |-> snapshot, delivering |-> delivering]
Top == frames[Len(frames)]
Pop == SubSeq(frames, 1, Len(frames) - 1)
ReplaceTop(f) == [frames EXCEPT ![Len(frames)] = f]

\* update(u) up to the start of the loop of evaluateAchievements, called by
\* the application or by the subscriber being notified
BeginUpdate(u) ==
    /\ Len(frames) < MaxDepth
    /\ IF frames = << >> THEN TRUE ELSE Top.delivering
    /\ metrics' = assignMetrics(metrics, u)
    /\ frames' = Append(frames, Frame(1, << >>,
                                      getMetricsAsArray(assignMetrics(metrics, u)), FALSE))
    /\ UNCHANGED <<unlockedAchievements, customSuffix, storage, events, onErrorCalls,
                   lastOp, emitCount, updatesOnly, storeFailures, fresh>>
    /\ UNCHANGED <<queueVars, adapterVars, importVars, twinVars, emitterVars, normVars>>

\* One iteration of the loop: the entry at pos is skipped, or found met,
\* pushed on the batch and notified
EvaluateNext ==
    /\ frames # << >>
    /\ ~Top.delivering
    /\ Top.pos <= Len(normalizeAchievements(customSuffix))
    /\ LET a == normalizeAchievements(customSuffix)[Top.pos]
           state == [metrics |-> Top.snapshot, unlockedAchievements |-> unlockedAchievements]
           met == /\ a.achievementId \notin Range(unlockedAchievements)
                  /\ shouldCheckAchievement(a, metrics)
                  /\ isConditionMet(a, Get(metrics, a.metric), state)
       IN  frames' = IF met
                     THEN ReplaceTop(Frame(Top.pos, Append(Top.newly, a.achievementId),
                                           Top.snapshot, TRUE))
                     ELSE ReplaceTop(Frame(Top.pos + 1, Top.newly, Top.snapshot, FALSE))
    /\ UNCHANGED <<engineVars, queueVars, adapterVars, importVars, twinVars, emitterVars,
                   normVars>>

\* The subscriber returns and the loop goes on with the next entry
HandlerReturns ==
    /\ frames # << >>
    /\ Top.delivering
    /\ frames' = ReplaceTop(Frame(Top.pos + 1, Top.newly, Top.snapshot, FALSE))
    /\ UNCHANGED <<engineVars, queueVars, adapterVars, importVars, twinVars, emitterVars,
                   normVars>>

\* The end of evaluateAchievements and of update: the batch is appended,
\* the state saved, and the call returns
EndUpdate ==
    /\ frames # << >>
    /\ ~Top.delivering
    /\ Top.pos > Len(normalizeAchievements(customSuffix))
    /\ unlockedAchievements' = appendNewlyUnlocked(unlockedAchievements, Top.newly)
    /\ storage' = saveToStorage(storage, metrics,
                                appendNewlyUnlocked(unlockedAchievements, Top.newly),
                                "none").store
    /\ frames' = Pop
    /\ UNCHANGED <<metrics, customSuffix, events, onErrorCalls, lastOp, emitCount,
                   updatesOnly, storeFailures, fresh>>
    /\ UNCHANGED <<queueVars, adapterVars, importVars, twinVars, emitterVars, normVars>>

ReentryNext ==
    \/ \E u \in UpdateInputs : BeginUpdate(u)
    \/ EvaluateNext
    \/ HandlerReturns
    \/ EndUpdate

InitReentry == EngineInit /\ QueueHeld /\ AdapterHeld /\ ImportHeld /\ UtilityHeld
SpecReentry == InitReentry /\ [][ReentryNext]_vars

\* C34 as stated: while an update is evaluating, the unlocked list that
\* predicates and subscribers of the unlock notification read contains no id
\* of the batch that update is collecting; the batch is appended only when
\* the evaluation of all achievements has ended.
C34_BatchInvisibleDuringEvaluation ==
    \A f \in 1..Len(frames) :
        Range(frames[f].newly) \cap Range(unlockedAchievements) = {}

\* C38 as stated: the unlocked list holds each id at most once in every
\* reachable state, also when a subscriber calls update during an update.
C38_UnlockedIdsUnique ==
    \A i, j \in 1..Len(unlockedAchievements) :
        i # j => unlockedAchievements[i] # unlockedAchievements[j]


-----------------------------------------------------------------------------
(* OfflineQueueStorage.  A write is numbered in the order of the calls; its *)
(* issue number stands for the value it writes, and its data field says     *)
(* whether that value holds a Date.  A call of the inner storage            *)
(* takes effect, or is refused, when it is made; the promise it returns is  *)
(* settled later, and the code after the await runs then: pending holds the *)
(* calls whose continuation has not run yet.                                *)

MaxWrites == 3
WriteTypes == {"setMetrics", "setUnlockedAchievements", "clear"}

\* What the data of a write holds: JSON values only ("plain"), or a Date
\* among the metric values ("date"); "isoString" is what JSON makes of it
WriteData(type) == IF type = "setMetrics" THEN {"plain", "date"} ELSE {"plain"}

Operation(id, type, data) == [id |-> id, type |-> type, data |-> data]
Call(kind, op, ok) ==
    [kind |-> kind, id |-> op.id, type |-> op.type, data |-> op.data, ok |-> ok]

\* The instance's mutable fields and the inner storage, as one record
QueueState ==
    [queue |-> queue, persistedQueue |-> persistedQueue, isSyncing |-> isSyncing,
     pending |-> pending, backend |-> backend, applied |-> applied]

\* innerStorage.setMetrics / setUnlockedAchievements / clear taking effect
applyToBackend(b, op) ==
    CASE op.type = "setMetrics" -> [b EXCEPT !.metrics = op.id]
      [] op.type = "setUnlockedAchievements" -> [b EXCEPT !.unlocked = op.id]
      [] OTHER -> [metrics |-> 0, unlocked |-> 0]

\* A call of the inner storage made from a write ("direct") or from the
\* drain loop ("drain"); up says whether the backend accepts it
invoke(s, kind, op, up) ==
    [s EXCEPT !.pending = @ \cup {Call(kind, op, up)},
              !.backend = IF up THEN applyToBackend(@, op) ELSE @,
              !.applied = IF up THEN Append(@, op.id) ELSE @]

\* JSON.parse(JSON.stringify(queue)): a Date in the data of an operation
\* comes back as its ISO string
jsonOperation(op) == [op EXCEPT !.data = IF @ = "date" THEN "isoString" ELSE @]
jsonQueue(q) == [i \in 1..Len(q) |-> jsonOperation(q[i])]

\* saveQueue(): persistedQueue is what JSON.parse reads from the stored text
saveQueue(s) == [s EXCEPT !.persistedQueue = jsonQueue(s.queue)]

\* loadQueue(): JSON.parse of the stored text
loadQueue(stored) == stored

\* processQueue() up to its first await
processQueue(s, online, up) ==
    IF s.isSyncing \/ Len(s.queue) = 0 \/ ~online THEN s
    ELSE invoke([s EXCEPT !.isSyncing = TRUE], "drain", s.queue[1], up)

\* queueOperation(type, data)
queueOperation(s, op, online, up) ==
    processQueue(saveQueue([s EXCEPT !.queue = Append(@, op)]), online, up)

\* processQueue() after the await of the head's call: shift and go round
\* the loop, or break; isSyncing is reset when the loop is left
afterDrainCall(s, ok, online, up) ==
    IF ok
    THEN LET shifted == saveQueue([s EXCEPT !.queue =
                                      IF Len(@) > 0 THEN Tail(@) ELSE @])
         IN  IF Len(shifted.queue) > 0 /\ online
             THEN invoke(shifted, "drain", shifted.queue[1], up)
             ELSE [shifted EXCEPT !.isSyncing = FALSE]
    ELSE [s EXCEPT !.isSyncing = FALSE]

\* A write whose failed direct call is dropped instead of queued
afterDirectCallDropping(s, p, online, up) ==
    IF p.ok
    THEN (IF p.type = "clear" THEN saveQueue([s EXCEPT !.queue = << >>]) ELSE s)
    ELSE s

\* setMetrics / setUnlockedAchievements / clear after the await of the
\* direct call
afterDirectCall(s, p, online, up) ==
    IF p.ok
    THEN (IF p.type = "clear" THEN saveQueue([s EXCEPT !.queue = << >>]) ELSE s)
    ELSE queueOperation(s, Operation(p.id, p.type, p.data), online, up)

SetQueueState(s) ==
    /\ queue' = s.queue
    /\ persistedQueue' = s.persistedQueue
    /\ isSyncing' = s.isSyncing
    /\ pending' = s.pending
    /\ backend' = s.backend
    /\ applied' = s.applied

QueueInit ==
    /\ queue = << >>
    /\ persistedQueue = << >>
    /\ isOnline \in BOOLEAN
    /\ isSyncing = FALSE
    /\ pending = {}
    /\ backend = [metrics |-> 0, unlocked |-> 0]
    /\ backendUp \in BOOLEAN
    /\ nextId = 1
    /\ applied = << >>
    /\ writeResults = << >>
    /\ pendingRead = [called |-> FALSE]
    /\ lastRead = [result |-> "none"]
    /\ instance = 1

\* setMetrics(metrics), setUnlockedAchievements(achievements), clear(): up
\* to the await of the direct call when online, to the end when offline
Write(type, data) ==
    /\ nextId <= MaxWrites
    /\ nextId' = nextId + 1
    /\ IF isOnline
       THEN /\ SetQueueState(invoke(QueueState, "direct",
                                    Operation(nextId, type, data), backendUp))
            /\ writeResults' = Append(writeResults, "pending")
       ELSE /\ SetQueueState(queueOperation(QueueState, Operation(nextId, type, data),
                                            isOnline, backendUp))
            /\ writeResults' = Append(writeResults, "resolved")
    /\ UNCHANGED <<isOnline, backendUp, readVars, instance,
                   engineVars, adapterVars, importVars, utilityVars>>

\* The promise of a direct call settles: the write call ends, by its return
\* or after queueOperation()
DirectCallSettles(p) ==
    /\ p \in pending
    /\ p.kind = "direct"
    /\ SetQueueState(afterDirectCall([QueueState EXCEPT !.pending = @ \ {p}], p,
                                     isOnline, backendUp))
    /\ writeResults' = [writeResults EXCEPT ![p.id] = "resolved"]
    /\ UNCHANGED <<isOnline, backendUp, nextId, readVars, instance,
                   engineVars, adapterVars, importVars, utilityVars>>

\* The promise of the drain's call settles
DrainCallSettles(p) ==
    /\ p \in pending
    /\ p.kind = "drain"
    /\ SetQueueState(afterDrainCall([QueueState EXCEPT !.pending = @ \ {p}], p.ok,
                                    isOnline, backendUp))
    /\ UNCHANGED <<isOnline, backendUp, nextId, writeResults, readVars, instance,
                   engineVars, adapterVars, importVars, utilityVars>>

\* The window's 'online' event
HandleOnline ==
    /\ ~isOnline
    /\ isOnline' = TRUE
    /\ SetQueueState(processQueue(QueueState, TRUE, backendUp))
    /\ UNCHANGED <<backendUp, nextId, writeResults, readVars, instance,
                   engineVars, adapterVars, importVars, utilityVars>>

\* The window's 'offline' event
HandleOffline ==
    /\ isOnline
    /\ isOnline' = FALSE
    /\ UNCHANGED <<queue, persistedQueue, isSyncing, pending, backend, backendUp,
                   nextId, applied, writeResults, readVars, instance,
                   engineVars, adapterVars, importVars, utilityVars>>

\* sync()
Sync ==
    /\ SetQueueState(processQueue(QueueState, isOnline, backendUp))
    /\ UNCHANGED <<isOnline, backendUp, nextId, writeResults, readVars, instance,
                   engineVars, adapterVars, importVars, utilityVars>>

\* The backend starts refusing calls, or accepts them again
BackendFails ==
    /\ backendUp
    /\ backendUp' = FALSE
    /\ UNCHANGED <<queue, persistedQueue, isOnline, isSyncing, pending, backend,
                   nextId, applied, writeResults, readVars, instance,
                   engineVars, adapterVars, importVars, utilityVars>>

BackendRecovers ==
    /\ ~backendUp
    /\ backendUp' = TRUE
    /\ UNCHANGED <<queue, persistedQueue, isOnline, isSyncing, pending, backend,
                   nextId, applied, writeResults, readVars, instance,
                   engineVars, adapterVars, importVars, utilityVars>>

QueueNext ==
    \/ \E type \in WriteTypes : \E data \in WriteData(type) : Write(type, data)
    \/ \E p \in pending : DirectCallSettles(p)
    \/ \E p \in pending : DrainCallSettles(p)
    \/ HandleOnline
    \/ HandleOffline
    \/ Sync
    \/ BackendFails
    \/ BackendRecovers

InitQueue == QueueInit /\ EngineHeld /\ AdapterHeld /\ ImportHeld /\ UtilityHeld
SpecQueue == InitQueue /\ [][QueueNext]_vars

\* Every settled promise runs its continuation, and the browser reports
\* regained connectivity
QueueFairness ==
    /\ WF_vars(\E p \in pending : DirectCallSettles(p))
    /\ WF_vars(\E p \in pending : DrainCallSettles(p))
    /\ WF_vars(HandleOnline)

FairSpecQueue == InitQueue /\ [][QueueNext]_vars /\ QueueFairness

-----------------------------------------------------------------------------
(* Properties of the offline queue.                                         *)

QueuedIds == {queue[k].id : k \in 1..Len(queue)}
DrainCalls == {p \in pending : p.kind = "drain"}

\* C4 as stated: writes reach the backend in issue order; no write is
\* applied to the backend while an earlier-issued write is still waiting in
\* the queue (queued, and not yet applied by a call of the drain).
C4_AppliedInIssueOrder ==
    [][\A i \in 1..MaxWrites :
          (Len(applied') = Len(applied) + 1 /\ applied'[Len(applied')] = i)
             => \A j \in QueuedIds \ Range(applied) : j >= i]_vars

\* C37 as stated: an operation leaves the queue only in a step in which the
\* drain's call for that very operation is found to have succeeded, or in
\* which a clear issued after it is found to have succeeded against the
\* backend; no operation is dropped without having been applied.
C37_LeavesOnlyWhenApplied ==
    [][\A id \in QueuedIds \ {queue'[k].id : k \in 1..Len(queue')} :
          \/ \E p \in pending \ pending' : p.kind = "drain" /\ p.ok /\ p.id = id
          \/ \E p \in pending \ pending' :
                p.kind = "direct" /\ p.type = "clear" /\ p.ok /\ p.id > id]_vars

\* C5 as stated: a drain works from the head; when the call for the head
\* fails the drain stops and the queue is left as it is, and a call that
\* succeeded removes the operation it applied and no other.
C5_DrainHeadFirst ==
    [][\A p \in DrainCalls :
          p \notin pending' =>
             IF p.ok
             THEN queue' = SelectSeq(queue, LAMBDA o : o.id # p.id)
             ELSE queue' = queue /\ ~isSyncing' /\ DrainCalls' = {}]_vars

\* C6 as stated: when connectivity is restored for good and the backend
\* accepts every call from some point on, no operation stays in the queue
\* forever (continuations and connectivity events being scheduled fairly).
C6_EveryQueuedWriteDelivered ==
    <>[](isOnline /\ backendUp) => []<>(Len(queue) = 0)

\* The step of a write call up to its first await, and the direct calls
\* whose continuation the step runs
WriteStep == nextId' = nextId + 1
DirectCalls == {p \in pending : p.kind = "direct"}
NewOperation(id) ==
    \E type \in WriteTypes : \E data \in WriteData(type) :
        queue' = Append(queue, Operation(id, type, data))

\* C17: a write is appended to the queue exactly when it is issued offline
\* or its direct backend call, made online, failed.  Issued offline, it is
\* appended at once, the backend is not called for it and the call has
\* resolved; issued online, it is handed to the backend and not queued; when
\* the direct call has failed it is appended, when it has succeeded it is
\* not; in each case the write call resolves.
C17_QueuedExactlyOnOfflineOrFailure ==
    [][/\ (WriteStep /\ ~isOnline) =>
             /\ NewOperation(nextId)
             /\ pending' = pending /\ applied' = applied /\ backend' = backend
             /\ writeResults'[nextId] = "resolved"
       /\ (WriteStep /\ isOnline) =>
             /\ queue' = queue
             /\ \E p \in DirectCalls' \ DirectCalls : p.id = nextId
       /\ \A p \in DirectCalls \ DirectCalls' :
             /\ writeResults'[p.id] = "resolved"
             /\ IF p.ok THEN p.id \notin QueuedIds'
                        ELSE queue' = Append(queue, Operation(p.id, p.type, p.data))
    ]_vars

\* Two writes that were issued offline, or whose direct call failed, are
\* queued in issue order and their calls have resolved; a later write whose
\* direct call succeeded is applied and not queued
C17_Witness ==
    /\ Len(queue) = 2
    /\ queue[1].id = 1 /\ queue[2].id = 2
    /\ applied = <<3>>
    /\ writeResults = <<"resolved", "resolved", "resolved">>

-----------------------------------------------------------------------------
(* Reads of the offline queue.  The call of the inner storage is answered,  *)
(* or refused, when it is made; the code after the await, with its catch,   *)
(* runs when the promise settles and looks at isOnline then.                *)

ReadKinds == {"getMetrics", "getUnlockedAchievements"}

\* innerStorage.getMetrics() / getUnlockedAchievements()
backendRead(b, kind) == IF kind = "getMetrics" THEN b.metrics ELSE b.unlocked

\* A catch that rethrows the backend's error whatever isOnline is
readResultRethrowing(r, online) ==
    IF r.ok THEN [result |-> "value", kind |-> r.kind, value |-> r.value]
    ELSE [result |-> "backend error"]

\* What getMetrics() / getUnlockedAchievements() returns or throws
readResult(r, online) ==
    IF r.ok THEN [result |-> "value", kind |-> r.kind, value |-> r.value]
    ELSE IF ~online THEN [result |-> "cannot read while offline"]
    ELSE [result |-> "backend error"]

\* getMetrics() / getUnlockedAchievements() up to the await
ReadCall(kind) ==
    /\ ~pendingRead.called
    /\ pendingRead' = [called |-> TRUE, kind |-> kind, ok |-> backendUp,
                       value |-> IF backendUp THEN backendRead(backend, kind) ELSE 0]
    /\ lastRead' = [result |-> "none"]
    /\ UNCHANGED <<queue, persistedQueue, isOnline, isSyncing, pending, backend,
                   backendUp, nextId, applied, writeResults, instance,
                   engineVars, adapterVars, importVars, utilityVars>>

\* The promise of the inner storage's read settles
ReadSettles ==
    /\ pendingRead.called
    /\ lastRead' = readResult(pendingRead, isOnline)
    /\ pendingRead' = [called |-> FALSE]
    /\ UNCHANGED <<queue, persistedQueue, isOnline, isSyncing, pending, backend,
                   backendUp, nextId, applied, writeResults, instance,
                   engineVars, adapterVars, importVars, utilityVars>>

QueueReadNext ==
    \/ QueueNext
    \/ \E kind \in ReadKinds : ReadCall(kind)
    \/ ReadSettles

SpecQueueReads == InitQueue /\ [][QueueReadNext]_vars

\* Issue numbers of the writes waiting in the queue and not applied yet
UnappliedIds == QueuedIds \ Range(applied)

\* C18: a read always calls the backend, whatever the connectivity and the
\* queue, and returns what the backend answers, which is never the value of
\* a write that waits in the queue; when the backend's read fails, the read
\* throws the cannot-read-while-offline StorageError if the queue is offline
\* and the backend's own error if it is online.
C18_ReadsGoToBackend ==
    [][/\ (~pendingRead.called /\ pendingRead'.called) =>
             /\ pendingRead'.ok = backendUp
             /\ pendingRead'.ok =>
                   /\ pendingRead'.value = backendRead(backend, pendingRead'.kind)
                   /\ pendingRead'.value \notin UnappliedIds
       /\ (pendingRead.called /\ ~pendingRead'.called) =>
             /\ pendingRead.ok =>
                   lastRead' = [result |-> "value", kind |-> pendingRead.kind,
                                value |-> pendingRead.value]
             /\ (~pendingRead.ok /\ ~isOnline) =>
                   lastRead'.result = "cannot read while offline"
             /\ (~pendingRead.ok /\ isOnline) =>
                   lastRead'.result = "backend error"
    ]_vars

\* While offline with a setMetrics waiting in the queue, a read of the
\* metrics returned the backend's value, not the queued one
C18_Witness ==
    /\ ~isOnline
    /\ lastRead.result = "value"
    /\ lastRead.kind = "getMetrics"
    /\ Len(queue) > 0
    /\ queue[1].type = "setMetrics"
    /\ queue[1].id \in UnappliedIds
    /\ lastRead.value # queue[1].id

-----------------------------------------------------------------------------
(* A restart: the process ends, with the continuations it had not run, and  *)
(* a new OfflineQueueStorage is constructed over the same local store and   *)
(* the same backend.                                                        *)

MaxInstances == 2

\* new OfflineQueueStorage(innerStorage): loadQueue(), then processQueue()
\* if navigator.onLine
Restart(online) ==
    /\ instance < MaxInstances
    /\ instance' = instance + 1
    /\ isOnline' = online
    /\ SetQueueState(processQueue([QueueState EXCEPT
                                      !.queue = loadQueue(persistedQueue),
                                      !.isSyncing = FALSE,
                                      !.pending = {}],
                                  online, backendUp))
    /\ UNCHANGED <<backendUp, nextId, writeResults, readVars,
                   engineVars, adapterVars, importVars, utilityVars>>

QueueRestartNext ==
    \/ QueueNext
    \/ \E online \in BOOLEAN : Restart(online)

SpecQueueRestart == InitQueue /\ [][QueueRestartNext]_vars

\* C19 as stated: after every enqueue, dequeue by a drain and clear, the
\* persisted copy of the queue equals the queue in memory (the same
\* operations in the same order), and an instance constructed after a
\* restart starts with exactly the operations that were pending, in order.
C19_PersistedEqualsQueue ==
    [][/\ persistedQueue' = queue'
       /\ instance' # instance => queue' = queue]_vars

-----------------------------------------------------------------------------
(* AsyncStorageAdapter under an engine: new AchievementEngine({storage})    *)
(* with an asynchronous backend.  initializeStorage() constructs the        *)
(* adapter, whose constructor starts initializeCache(), and the engine's    *)
(* constructor calls loadFromStorage() before it returns; the promise of    *)
(* the initial load and those of the background writes settle later.        *)

MaxInFlight == 4
MaxAdapterErrors == 1
MaxEngineOps == 2
MaxFlushes == 2

\* What an earlier session left in the backend
PersistedStates ==
    { [metrics |-> getMetricsAsArray(s.metrics), unlocked |-> s.unlocked] :
        s \in SavedStates }

AdapterUpdateInputs ==
    { [k \in {"score"} |-> Num(100)], [k \in {"done"} |-> Bool(1)] }

\* The adapter's synchronous reads, as the store loadFromStorage() reads
CacheAsStore(c) == [kind |-> "memory", metrics |-> c.metrics, unlocked |-> c.unlocked]

\* A call of the backend made in the background, with its issue number
BackgroundCall(n, type, h, unl) ==
    [n |-> n, type |-> type, metrics |-> h, unlocked |-> unl]

\* asyncStorage.setMetrics / setUnlockedAchievements / clear taking effect
applyToAsyncStorage(b, w) ==
    CASE w.type = "setMetrics" -> [b EXCEPT !.metrics = w.metrics]
      [] w.type = "setUnlockedAchievements" -> [b EXCEPT !.unlocked = w.unlocked]
      [] OTHER -> [metrics |-> EmptyObj, unlocked |-> << >>]

\* A write that leaves the cache to be updated by the backend's answer
cacheUnchangedByWrite(c, w) == c

\* The synchronous part of setMetrics / setUnlockedAchievements / clear:
\* the cache is assigned before the backend is called
cacheAfterWrite(c, w) ==
    CASE w.type = "setMetrics" -> [c EXCEPT !.metrics = w.metrics]
      [] w.type = "setUnlockedAchievements" -> [c EXCEPT !.unlocked = w.unlocked]
      [] OTHER -> [c EXCEPT !.metrics = EmptyObj, !.unlocked = << >>]

RemoveAt(seq, i) == SubSeq(seq, 1, i - 1) \o SubSeq(seq, i + 1, Len(seq))

\* Issue numbers of the background calls whose promise has not settled
Unsettled == {inFlight[i].n : i \in 1..Len(inFlight)}

\* The state after new AchievementEngine({storage: asyncBackend}) returns
AdapterInit ==
    /\ asyncStorage \in PersistedStates
    /\ cache = [metrics |-> EmptyObj, unlocked |-> << >>, loaded |-> FALSE]
    /\ initialLoad = "pending"
    /\ inFlight = << >>
    /\ adapterErrors = 0
    /\ aEngine = [metrics |-> loadFromStorage(CacheAsStore(cache)).metrics,
                  unlocked |-> loadFromStorage(CacheAsStore(cache)).unlocked,
                  ops |-> 0]
    /\ nextWrite = 1
    /\ pendingWrites = << >>
    /\ flushes = {}
    /\ failedWrites = {}

\* initializeCache() that marks the cache loaded without assigning to it
InitializeCacheLoadsNothing ==
    /\ initialLoad = "pending"
    /\ initialLoad' = "loaded"
    /\ cache' = [cache EXCEPT !.loaded = TRUE]
    /\ UNCHANGED <<asyncStorage, inFlight, adapterErrors, aEngine, nextWrite,
                   pendingWrites, flushes, failedWrites,
                   engineVars, queueVars, importVars, utilityVars>>

\* initializeCache() after Promise.all resolves, with what the backend holds
InitializeCacheLoads ==
    /\ initialLoad = "pending"
    /\ initialLoad' = "loaded"
    /\ cache' = [metrics |-> asyncStorage.metrics, unlocked |-> asyncStorage.unlocked,
                 loaded |-> TRUE]
    /\ UNCHANGED <<asyncStorage, inFlight, adapterErrors, aEngine, nextWrite,
                   pendingWrites, flushes, failedWrites,
                   engineVars, queueVars, importVars, utilityVars>>

\* initializeCache() after Promise.all rejects
InitializeCacheFails ==
    /\ initialLoad = "pending"
    /\ adapterErrors < MaxAdapterErrors
    /\ initialLoad' = "failed"
    /\ cache' = [cache EXCEPT !.loaded = TRUE]
    /\ adapterErrors' = adapterErrors + 1
    /\ UNCHANGED <<asyncStorage, inFlight, aEngine, nextWrite, pendingWrites,
                   flushes, failedWrites, engineVars, queueVars, importVars, utilityVars>>

\* engine.update(u) on the engine over the adapter: saveToStorage() calls
\* the adapter's setMetrics and setUnlockedAchievements
AdapterUpdate(u) ==
    /\ aEngine.ops < MaxEngineOps
    /\ Len(inFlight) + 2 <= MaxInFlight
    /\ \E m1 \in {assignMetrics(aEngine.metrics, u)} :
       \E unl1 \in {appendNewlyUnlocked(aEngine.unlocked,
                       newlyUnlockedAchievements(m1, aEngine.unlocked, 1))} :
       \E w1 \in {BackgroundCall(nextWrite, "setMetrics", getMetricsAsArray(m1), << >>)} :
       \E w2 \in {BackgroundCall(nextWrite + 1, "setUnlockedAchievements",
                                  EmptyObj, unl1)} :
        /\ aEngine' = [metrics |-> m1, unlocked |-> unl1, ops |-> aEngine.ops + 1]
        /\ cache' = cacheAfterWrite(cacheAfterWrite(cache, w1), w2)
        /\ inFlight' = inFlight \o <<w1, w2>>
        /\ pendingWrites' = pendingWrites \o <<w1.n, w2.n>>
        /\ nextWrite' = nextWrite + 2
    /\ UNCHANGED <<asyncStorage, initialLoad, adapterErrors, flushes, failedWrites,
                   engineVars, queueVars, importVars, utilityVars>>

\* engine.reset() on the engine over the adapter: the adapter's clear()
AdapterReset ==
    /\ aEngine.ops < MaxEngineOps
    /\ Len(inFlight) + 1 <= MaxInFlight
    /\ \E w \in {BackgroundCall(nextWrite, "clear", EmptyObj, << >>)} :
        /\ aEngine' = [metrics |-> EmptyObj, unlocked |-> << >>, ops |-> aEngine.ops + 1]
        /\ cache' = cacheAfterWrite(cache, w)
        /\ inFlight' = Append(inFlight, w)
        /\ pendingWrites' = Append(pendingWrites, w.n)
        /\ nextWrite' = nextWrite + 1
    /\ UNCHANGED <<asyncStorage, initialLoad, adapterErrors, flushes, failedWrites,
                   engineVars, queueVars, importVars, utilityVars>>

\* A background call is carried out by the backend and its promise resolves
BackgroundCallSucceeds(i) ==
    /\ i \in 1..Len(inFlight)
    /\ asyncStorage' = applyToAsyncStorage(asyncStorage, inFlight[i])
    /\ inFlight' = RemoveAt(inFlight, i)
    /\ UNCHANGED <<cache, initialLoad, adapterErrors, aEngine, nextWrite, pendingWrites,
                   flushes, failedWrites, engineVars, queueVars, importVars, utilityVars>>

\* A rejected background call whose catch handler does not call onError
BackgroundCallFailsSilently(i) ==
    /\ i \in 1..Len(inFlight)
    /\ adapterErrors < MaxAdapterErrors
    /\ failedWrites' = failedWrites \cup {inFlight[i].n}
    /\ inFlight' = RemoveAt(inFlight, i)
    /\ UNCHANGED <<cache, asyncStorage, initialLoad, adapterErrors, aEngine, nextWrite,
                   pendingWrites, flushes, engineVars, queueVars, importVars, utilityVars>>

\* A background call is rejected: the catch handler calls onError, and the
\* promise kept in pendingWrites resolves
BackgroundCallFails(i) ==
    /\ i \in 1..Len(inFlight)
    /\ adapterErrors < MaxAdapterErrors
    /\ adapterErrors' = adapterErrors + 1
    /\ failedWrites' = failedWrites \cup {inFlight[i].n}
    /\ inFlight' = RemoveAt(inFlight, i)
    /\ UNCHANGED <<cache, asyncStorage, initialLoad, aEngine, nextWrite, pendingWrites,
                   flushes, engineVars, queueVars, importVars, utilityVars>>

\* flush() is called: Promise.all is handed the promises pendingWrites holds
\* now; issued is the number of background calls made before this call
FlushCall ==
    /\ Cardinality(flushes) < MaxFlushes
    /\ flushes' = flushes \cup {[waits |-> Range(pendingWrites), issued |-> nextWrite - 1]}
    /\ UNCHANGED <<cache, asyncStorage, initialLoad, inFlight, adapterErrors, aEngine,
                   nextWrite, pendingWrites, failedWrites,
                   engineVars, queueVars, importVars, utilityVars>>

\* Every promise a flush() waits on has settled: it assigns [] to
\* pendingWrites and resolves
FlushResolves(f) ==
    /\ f \in flushes
    /\ f.waits \cap Unsettled = {}
    /\ pendingWrites' = << >>
    /\ flushes' = flushes \ {f}
    /\ UNCHANGED <<cache, asyncStorage, initialLoad, inFlight, adapterErrors, aEngine,
                   nextWrite, failedWrites, engineVars, queueVars, importVars, utilityVars>>

AdapterNext ==
    \/ InitializeCacheLoads
    \/ InitializeCacheFails
    \/ \E u \in AdapterUpdateInputs : AdapterUpdate(u)
    \/ AdapterReset
    \/ \E i \in 1..MaxInFlight : BackgroundCallSucceeds(i)
    \/ \E i \in 1..MaxInFlight : BackgroundCallFails(i)

InitAdapter == AdapterInit /\ EngineHeld /\ QueueHeld /\ ImportHeld /\ UtilityHeld
SpecAdapter == InitAdapter /\ [][AdapterNext]_vars

\* The adapter with callers of flush()
AdapterFlushNext ==
    \/ AdapterNext
    \/ FlushCall
    \/ \E f \in flushes : FlushResolves(f)

SpecAdapterFlush == InitAdapter /\ [][AdapterFlushNext]_vars

-----------------------------------------------------------------------------
(* Properties of the engine over the adapter.                               *)

\* C7 as stated: once the initial load of the backend has completed, an
\* engine constructed over a backend that held persisted state returns
\* that state from getMetrics and getUnlocked (no operation having been
\* called on the engine yet).
C7_EngineAdoptsPersistedState ==
    (initialLoad = "loaded" /\ aEngine.ops = 0) =>
        /\ aEngine.metrics = toWorkingForm(asyncStorage.metrics)
        /\ aEngine.unlocked = asyncStorage.unlocked

\* What the adapter's synchronous reads return
ReadMetrics == cache.metrics
ReadUnlocked == cache.unlocked

\* C13 as stated: every read made before the initial load has completed
\* returns the empty default state; and, no write having been made through
\* the adapter, every read made after the load has completed returns what
\* the backend held.
C13_ReadsEmptyBeforeLoad ==
    /\ initialLoad = "pending" => (ReadMetrics = EmptyObj /\ ReadUnlocked = << >>)
    /\ (initialLoad = "loaded" /\ nextWrite = 1) =>
          (ReadMetrics = asyncStorage.metrics /\ ReadUnlocked = asyncStorage.unlocked)

\* C13: as long as no write has been made through the adapter, every read
\* made before the initial load has completed returns the empty default
\* state, and every read made after the load has completed returns what the
\* backend held.  (With no write made the backend still holds its prior
\* contents.)
C13_ReadsFollowLoadWithoutWrites ==
    nextWrite = 1 =>
        /\ initialLoad = "pending" => (ReadMetrics = EmptyObj /\ ReadUnlocked = << >>)
        /\ initialLoad = "loaded" =>
              (ReadMetrics = asyncStorage.metrics /\ ReadUnlocked = asyncStorage.unlocked)

\* The load completed over a backend that held metrics and unlocked ids, no
\* write was made, and the reads return them
C13_Witness ==
    /\ initialLoad = "loaded"
    /\ nextWrite = 1
    /\ asyncStorage.unlocked # << >>
    /\ ReadMetrics = asyncStorage.metrics
    /\ ReadUnlocked = asyncStorage.unlocked
    /\ "score" \in DOMAIN ReadMetrics

\* The background calls issued by the step: their synchronous part has
\* returned and their promise has not settled
IssuedByStep(w) == w.n >= nextWrite

\* C14: right after setMetrics, setUnlockedAchievements or clear returns,
\* while its backend call is still unconfirmed, the reads return the value
\* just written (the empty state after clear).
C14_ReadsReturnWrittenValue ==
    [][\A i \in 1..Len(inFlight') :
          IssuedByStep(inFlight'[i]) =>
             /\ inFlight'[i].type = "setMetrics" =>
                   cache'.metrics = inFlight'[i].metrics
             /\ inFlight'[i].type = "setUnlockedAchievements" =>
                   cache'.unlocked = inFlight'[i].unlocked
             /\ inFlight'[i].type = "clear" =>
                   (cache'.metrics = EmptyObj /\ cache'.unlocked = << >>)
    ]_vars

\* The reads return metrics and unlocked ids whose backend calls are
\* unconfirmed and which the backend does not hold
C14_Witness ==
    /\ Len(inFlight) = 2
    /\ inFlight[1].type = "setMetrics"
    /\ inFlight[2].type = "setUnlockedAchievements"
    /\ ReadMetrics = inFlight[1].metrics
    /\ ReadUnlocked = inFlight[2].unlocked
    /\ ReadMetrics # asyncStorage.metrics
    /\ ReadUnlocked # asyncStorage.unlocked
    /\ ReadUnlocked # << >>

\* C15 as stated: when a flush() call resolves, every write or clear issued
\* through the adapter before that flush() was called has settled.
C15_FlushWaitsForEarlierWrites ==
    [][\A f \in flushes \ flushes' :
          \A n \in 1..f.issued : n \notin Unsettled]_vars

\* A step in which a background call or the initial load fails
FailureStep ==
    \/ failedWrites' # failedWrites
    \/ initialLoad = "pending" /\ initialLoad' = "failed"

\* C16: a failure of a background write or clear, or of the initial load,
\* calls the injected error callback once; it happens after the synchronous
\* call that started it has returned, and changes neither the engine's state
\* nor what the reads return.
C16_FailureGoesToCallback ==
    [][FailureStep =>
          /\ adapterErrors' = adapterErrors + 1
          /\ \A n \in failedWrites' \ failedWrites : n < nextWrite
          /\ nextWrite' = nextWrite
          /\ aEngine' = aEngine
          /\ cache'.metrics = cache.metrics
          /\ cache'.unlocked = cache.unlocked
    ]_vars

\* A background write was rejected: the callback was called, and the engine
\* and the reads keep the value written
C16_Witness ==
    /\ failedWrites # {}
    /\ adapterErrors = 1
    /\ initialLoad # "failed"
    /\ Get(aEngine.metrics, "score") = Num(100)
    /\ ReadMetrics = getMetricsAsArray(aEngine.metrics)

\* C39 as stated: when the initial load resolves after a write was made
\* through the adapter, the reads keep returning the value written last
\* (the empty state after a clear), not the contents the backend sends.
C39_LoadKeepsWrittenValue ==
    [][(initialLoad = "pending" /\ initialLoad' = "loaded" /\ nextWrite > 1) =>
          /\ cache'.metrics = cache.metrics
          /\ cache'.unlocked = cache.unlocked]_vars

\* C40 as stated: once every background call has settled, all of them
\* successfully, the backend holds the metrics and the unlocked ids the
\* adapter's reads return, whatever the order in which the backend
\* completed the calls.
C40_BackendConvergesToCache ==
    (inFlight = << >> /\ failedWrites = {} /\ nextWrite > 1) =>
        /\ asyncStorage.metrics = ReadMetrics
        /\ asyncStorage.unlocked = ReadUnlocked

-----------------------------------------------------------------------------
(* importAchievementData as a function of its arguments: each step is one   *)
(* call, made with a snapshot, a current state and options of the caller's  *)
(* choice, and records the arguments with the result.                       *)

\* Snapshots: those handed to import(), and an export that carries no
\* configuration hash (configHash is optional in ExportedData)
SnapshotInputs ==
    ImportInputs
    \cup { [ExportedSnapshot EXCEPT !.configHash = ""],
           exportAchievementData(
              [k \in {"score", "done"} |->
                  IF k = "score" THEN <<DateV(1)>> ELSE <<Bool(1)>>],
              <<"done_true", "score_50">>, createConfigHash),
           [ExportedSnapshot EXCEPT !.json = "null"],
           [ExportedSnapshot EXCEPT !.hasMetrics = FALSE],
           [ExportedSnapshot EXCEPT !.hasUnlocked = FALSE] }

\* The caller's current metrics (as lists) and unlocked ids
CurrentInputs ==
    { [metrics |-> EmptyObj, unlocked |-> << >>],
      [metrics |-> [k \in {"score"} |-> <<Num(50)>>], unlocked |-> <<"score_50">>],
      [metrics |-> [k \in {"score", "done"} |->
                       IF k = "score" THEN <<Num(100)>> ELSE <<Bool(1)>>],
       unlocked |-> <<"done_true", "score_100">>],
      [metrics |-> [k \in {"score"} |-> <<DateV(1)>>], unlocked |-> << >>] }

\* ImportOptions of the function; expectedConfigHash "" is an omitted one
MergeStrategies == {"replace", "merge", "preserve", "other"}
ExpectedHashes == {"", createConfigHash, OtherConfigHash}
OptionInputs ==
    [mergeStrategy : MergeStrategies, validate : BOOLEAN,
     expectedConfigHash : ExpectedHashes]

ImportInit == importCall = [called |-> FALSE]

\* importAchievementData(jsonString, currentMetrics, currentUnlocked, options)
ImportCall(data, current, options) ==
    /\ importCall' =
          [called |-> TRUE, data |-> data, current |-> current, options |-> options,
           result |-> importAchievementData(data, current.metrics, current.unlocked,
                                            options)]
    /\ UNCHANGED <<engineVars, queueVars, adapterVars, utilityVars>>

ImportNext ==
    \E data \in SnapshotInputs, current \in CurrentInputs, options \in OptionInputs :
        ImportCall(data, current, options)

InitImport == ImportInit /\ EngineHeld /\ QueueHeld /\ AdapterHeld /\ UtilityHeld
SpecImport == InitImport /\ [][ImportNext]_vars

\* The call was given a parsable snapshot
ParsedCall == importCall.called /\ importCall.data.json = "ok"
ReportsMismatch == "Configuration mismatch" \in Range(importCall.result.errors)

\* C11 as stated: an import given an expected fingerprint that the
\* snapshot's fingerprint does not equal fails and reports the
\* configuration mismatch, whether or not validation is enabled.
C11_MismatchAlwaysRejected ==
    (/\ ParsedCall
     /\ importCall.options.expectedConfigHash # ""
     /\ importCall.data.configHash # importCall.options.expectedConfigHash)
        => (~importCall.result.success /\ ReportsMismatch)

\* C11: with validation enabled, an import given an expected fingerprint and
\* a snapshot carrying a different fingerprint fails and reports the
\* configuration mismatch; with validation disabled, or for a snapshot that
\* carries no fingerprint, the fingerprints are not compared and no mismatch
\* is reported.
C11_MismatchRejectedWhenValidated ==
    ParsedCall =>
        /\ (/\ importCall.options.validate
            /\ importCall.options.expectedConfigHash # ""
            /\ importCall.data.configHash # ""
            /\ importCall.data.configHash # importCall.options.expectedConfigHash)
               => (~importCall.result.success /\ ReportsMismatch)
        /\ (~importCall.options.validate \/ importCall.data.configHash = "")
               => ~ReportsMismatch

\* A validated import of a snapshot of another configuration was rejected
\* with the mismatch as its only error
C11_Witness ==
    /\ ParsedCall
    /\ importCall.options.validate
    /\ importCall.options.expectedConfigHash = createConfigHash
    /\ importCall.data.configHash = OtherConfigHash
    /\ ~importCall.result.success
    /\ importCall.result.errors = <<"Configuration mismatch">>

\* The call was given a snapshot that passes structural validation, a known
\* strategy, and no expected fingerprint that a validation would reject
ValidSnapshot(data) == data.json = "ok" /\ validateExportedData(data, "") = << >>
ValidCall ==
    /\ importCall.called
    /\ ValidSnapshot(importCall.data)
    /\ importCall.options.mergeStrategy \in {"replace", "merge", "preserve"}
    /\ importCall.options.validate =>
          validateExportedData(importCall.data,
                               importCall.options.expectedConfigHash) = << >>

\* The list of a metric on either side, and whether both lists start with a
\* number
IsNumber(v) == v.t = "num"

C22_ImportNeverThrows == importCall.called => ~importCall.result.threw

-----------------------------------------------------------------------------
(* Two engines constructed from the same configuration object, each over    *)
(* its own empty MemoryStorage, and given the same update calls.  Each      *)
(* constructor runs normalizeAchievements, so each engine draws its own     *)
(* generateId() suffix for the custom entry.                                *)

TwinInit ==
    /\ twinA \in {NewTwin(sfx) : sfx \in CustomSuffixes}
    /\ twinB \in {NewTwin(sfx) : sfx \in CustomSuffixes}

\* update(u) on one engine: assignments, evaluateAchievements, the unlock
\* notifications it emits
twinAfterUpdate(t, u) ==
    LET newly == newlyUnlockedAchievements(assignMetrics(t.metrics, u), t.unlocked, t.sfx)
    IN  [metrics |-> assignMetrics(t.metrics, u),
         unlocked |-> appendNewlyUnlocked(t.unlocked, newly),
         sfx |-> t.sfx,
         notified |-> t.notified \o newly]

TwinUpdate(u) ==
    /\ twinA' = twinAfterUpdate(twinA, u)
    /\ twinB' = twinAfterUpdate(twinB, u)
    /\ UNCHANGED <<engineVars, queueVars, adapterVars, importVars, emitterVars, normVars,
                   reentryVars>>

TwinNext == \E u \in UpdateInputs : TwinUpdate(u)

InitTwin == TwinInit /\ EngineHeld /\ QueueHeld /\ AdapterHeld /\ ImportHeld
            /\ EmitterHeld /\ NormHeld /\ ReentryHeld
SpecTwin == InitTwin /\ [][TwinNext]_vars

\* Two id lists that agree entry by entry, a generated custom id standing
\* against a generated custom id
SameUpToCustomId(a, b) ==
    /\ Len(a) = Len(b)
    /\ \A i \in 1..Len(a) : a[i] = b[i] \/ (IncludesCustom(a[i]) /\ IncludesCustom(b[i]))

-----------------------------------------------------------------------------
(* EventEmitter.  listeners and onceListeners map a channel to a Set of     *)
(* handlers; a Set iterates in insertion order and ignores a second add of  *)
(* a member.  A handler is a function that returns or throws; which ones    *)
(* throw is chosen at each emit.                                            *)

Channels == {"a", "b"}
Handlers == {"h1", "h2"}

Delivery(handler, kind) == [handler |-> handler, kind |-> kind]

\* Set.prototype.add and Set.prototype.delete on an insertion-ordered set
SetAdd(set, x) == IF x \in Range(set) THEN set ELSE Append(set, x)
SetDelete(set, x) == SelectSeq(set, LAMBDA y : y # x)

EmitterInit ==
    /\ listeners = [c \in Channels |-> << >>]
    /\ onceListeners = [c \in Channels |-> << >>]
    /\ subscribed = [c \in Channels |-> << >>]
    /\ deliveries = << >>
    /\ emitOutcome = [called |-> FALSE]

\* on(event, handler)
On(event, handler) ==
    /\ listeners' = [listeners EXCEPT ![event] = SetAdd(@, handler)]
    /\ subscribed' = [subscribed EXCEPT ![event] = SetAdd(@, Delivery(handler, "on"))]
    /\ UNCHANGED <<onceListeners>>
    /\ deliveries' = << >>
    /\ emitOutcome' = [called |-> FALSE]
    /\ UNCHANGED <<engineVars, queueVars, adapterVars, importVars, twinVars, normVars,
                   reentryVars>>

\* once(event, handler)
Once(event, handler) ==
    /\ onceListeners' = [onceListeners EXCEPT ![event] = SetAdd(@, handler)]
    /\ subscribed' = [subscribed EXCEPT ![event] = SetAdd(@, Delivery(handler, "once"))]
    /\ UNCHANGED <<listeners>>
    /\ deliveries' = << >>
    /\ emitOutcome' = [called |-> FALSE]
    /\ UNCHANGED <<engineVars, queueVars, adapterVars, importVars, twinVars, normVars,
                   reentryVars>>

\* off(event, handler), also the function on() returns: the handler leaves
\* both sets
Off(event, handler) ==
    /\ listeners' = [listeners EXCEPT ![event] = SetDelete(@, handler)]
    /\ onceListeners' = [onceListeners EXCEPT ![event] = SetDelete(@, handler)]
    /\ subscribed' = [subscribed EXCEPT
                         ![event] = SelectSeq(@, LAMBDA x : x.handler # handler)]
    /\ deliveries' = << >>
    /\ emitOutcome' = [called |-> FALSE]
    /\ UNCHANGED <<engineVars, queueVars, adapterVars, importVars, twinVars, normVars,
                   reentryVars>>

\* The function once() returns: the handler leaves the once set only
OnceUnsubscribe(event, handler) ==
    /\ onceListeners' = [onceListeners EXCEPT ![event] = SetDelete(@, handler)]
    /\ subscribed' = [subscribed EXCEPT ![event] = SetDelete(@, Delivery(handler, "once"))]
    /\ UNCHANGED <<listeners>>
    /\ deliveries' = << >>
    /\ emitOutcome' = [called |-> FALSE]
    /\ UNCHANGED <<engineVars, queueVars, adapterVars, importVars, twinVars, normVars,
                   reentryVars>>

\* forEach over a copy of a set with no try/catch: the first handler that
\* throws ends the iteration
UpToFirstThrow(set, throwers) ==
    LET ok(i) == \A j \in 1..(i - 1) : set[j] \notin throwers
    IN  SelectSeq(set, LAMBDA h : \E i \in 1..Len(set) : set[i] = h /\ ok(i))

\* emit() without its try/catch blocks
invokedUncaught(regular, once, throwers) ==
    LET first == UpToFirstThrow(regular, throwers)
        second == IF Range(first) \cap throwers # {} THEN << >>
                  ELSE UpToFirstThrow(once, throwers)
    IN  [deliveries |-> [i \in 1..Len(first) |-> Delivery(first[i], "on")]
                          \o [i \in 1..Len(second) |-> Delivery(second[i], "once")],
         raised |-> (Range(first) \cup Range(second)) \cap throwers # {}]

\* The handler invocations of emit(): the copy of the regular listeners in
\* order, then the copy of the once listeners in order, each call inside a
\* try/catch that logs
invoked(regular, once, throwers) ==
    [deliveries |-> [i \in 1..Len(regular) |-> Delivery(regular[i], "on")]
                      \o [i \in 1..Len(once) |-> Delivery(once[i], "once")],
     raised |-> FALSE]

\* emit(event, data)
Emit(event, throwers) ==
    \E r \in {invoked(listeners[event], onceListeners[event], throwers)} :
        /\ deliveries' = r.deliveries
        /\ emitOutcome' = [called |-> TRUE, event |-> event,
                           threw |-> throwers \cap {d.handler : d \in Range(r.deliveries)},
                           raised |-> r.raised]
        /\ onceListeners' = [onceListeners EXCEPT ![event] = << >>]
        /\ subscribed' = [subscribed EXCEPT
                             ![event] = SelectSeq(@, LAMBDA x : x.kind # "once")]
        /\ UNCHANGED listeners
        /\ UNCHANGED <<engineVars, queueVars, adapterVars, importVars, twinVars, normVars,
                   reentryVars>>

\* removeAllListeners(event)
RemoveAllListeners(event) ==
    /\ listeners' = [listeners EXCEPT ![event] = << >>]
    /\ onceListeners' = [onceListeners EXCEPT ![event] = << >>]
    /\ subscribed' = [subscribed EXCEPT ![event] = << >>]
    /\ deliveries' = << >>
    /\ emitOutcome' = [called |-> FALSE]
    /\ UNCHANGED <<engineVars, queueVars, adapterVars, importVars, twinVars, normVars,
                   reentryVars>>

EmitterNext ==
    \/ \E event \in Channels, handler \in Handlers : On(event, handler)
    \/ \E event \in Channels, handler \in Handlers : Once(event, handler)
    \/ \E event \in Channels, handler \in Handlers : Off(event, handler)
    \/ \E event \in Channels, handler \in Handlers : OnceUnsubscribe(event, handler)
    \/ \E event \in Channels, throwers \in SUBSET Handlers : Emit(event, throwers)
    \/ \E event \in Channels : RemoveAllListeners(event)

InitEmitter == EmitterInit /\ EngineHeld /\ QueueHeld /\ AdapterHeld /\ ImportHeld
               /\ TwinHeld /\ NormHeld /\ ReentryHeld
SpecEmitter == InitEmitter /\ [][EmitterNext]_vars

\* C26: when a subscriber throws during a delivery, the emit still invokes
\* every other current subscriber of the channel, regular and once, does
\* not raise to its caller, and leaves the regular subscriptions of every
\* channel and the once subscriptions of the other channels in place, so
\* later notifications are delivered as well.
C26_ThrowingSubscriberIsolated ==
    [][emitOutcome'.called =>
          /\ ~emitOutcome'.raised
          /\ \A h \in Range(listeners[emitOutcome'.event]) :
                Delivery(h, "on") \in Range(deliveries')
          /\ \A h \in Range(onceListeners[emitOutcome'.event]) :
                Delivery(h, "once") \in Range(deliveries')
          /\ listeners' = listeners
          /\ \A c \in Channels \ {emitOutcome'.event} :
                onceListeners'[c] = onceListeners[c]]_vars

\* The first regular subscriber threw and the second regular subscriber and
\* a once subscriber of the channel were invoked after it
C26_Witness ==
    /\ emitOutcome.called
    /\ Len(deliveries) = 3
    /\ deliveries[1].handler \in emitOutcome.threw
    /\ deliveries[2] = Delivery("h2", "on")
    /\ "h2" \notin emitOutcome.threw
    /\ deliveries[3].kind = "once"
    /\ ~emitOutcome.raised

\* C27 as stated: a notification is delivered, before emit returns, to all
\* current subscribers of the channel in the order in which they
\* subscribed, for every mix of on and once subscriptions.
C27_DeliveredInSubscriptionOrder ==
    [][emitOutcome'.called => deliveries' = subscribed[emitOutcome'.event]]_vars

-----------------------------------------------------------------------------
(* normalizeAchievements on a configuration object.  A configuration is the *)
(* list of its Object.entries: groups [metric, array, items], array saying  *)
(* whether the group's value is an array (complex format, items are         *)
(* conditions) or an object (simple format, items are its entries [key,     *)
(* title, condition]).  A name is the list of its pieces, "_" being a       *)
(* piece, so that template strings are concatenations.  title "" is a       *)
(* missing title; condition is "absent", "function" or "string" (present    *)
(* but not a function).  Descriptions and icons are left out.               *)

ConfigMetrics == {<<"a">>, <<"a", "_", "b">>}
Entry(key, title, condition) == [key |-> key, title |-> title, condition |-> condition]
EntryInputs ==
    {Entry(k, "T", "absent") : k \in {<<"50">>, <<"true">>, <<"c">>, <<"b", "_", "c">>}}
    \cup {Entry(k, "T", "function") : k \in {<<"c">>, <<"custom">>}}
    \cup {Entry(<<"50">>, "", "absent"), Entry(<<"custom">>, "T", "string")}

\* The entries of one object: no key twice
ItemLists ==
    {<< >>} \cup {<<e>> : e \in EntryInputs}
    \cup {l \in {<<e, f>> : e \in EntryInputs, f \in EntryInputs} : l[1].key # l[2].key}
Group(metric, array, items) == [metric |-> metric, array |-> array, items |-> items]
SimpleGroups == {Group(m, FALSE, l) : m \in ConfigMetrics, l \in ItemLists}

\* isSimpleConfig(config), for a configuration that is an object
isSimpleConfigAlways(config) == TRUE
isSimpleConfig(config) == Len(config) = 0 \/ ~config[1].array

\* generateId() for the entry at position i of group g; the results of
\* different calls are taken to be different
generateId(g, i) == "r" \o ToString(g) \o ToString(i)

\* parseFloat(key)
parseFloat(key) ==
    CASE key = <<"0">> -> [nan |-> FALSE, n |-> 0]
      [] key = <<"1">> -> [nan |-> FALSE, n |-> 1]
      [] key = <<"50">> -> [nan |-> FALSE, n |-> 50]
      [] OTHER -> [nan |-> TRUE, n |-> 0]

\* hasCustomCondition(details)
hasCustomCondition(details) == details.condition = "function"

\* Object.entries of a group's value: of an array, its indices as keys and
\* its elements, which have neither title nor condition
entriesOf(group) ==
    IF group.array
    THEN [i \in 1..Len(group.items) |-> Entry(<<ToString(i - 1)>>, "", "absent")]
    ELSE group.items

\* The condition built for one entry
conditionOf(metric, achievement, g, i) ==
    IF hasCustomCondition(achievement)
    THEN [isConditionMet |-> [kind |-> "custom", threshold |-> 0, key |-> << >>],
          achievementId |-> metric \o <<"_", "custom", "_">> \o <<generateId(g, i)>>,
          achievementTitle |-> achievement.title]
    ELSE IF ~parseFloat(achievement.key).nan
    THEN [isConditionMet |-> [kind |-> "number",
                              threshold |-> parseFloat(achievement.key).n, key |-> << >>],
          achievementId |-> metric \o <<"_">> \o achievement.key,
          achievementTitle |-> achievement.title]
    ELSE [isConditionMet |-> [kind |-> "equals", threshold |-> 0, key |-> achievement.key],
          achievementId |-> metric \o <<"_">> \o achievement.key,
          achievementTitle |-> achievement.title]

\* normalizeAchievements(config)
normalizeConfig(config) ==
    IF ~isSimpleConfig(config) THEN config
    ELSE [g \in 1..Len(config) |->
            Group(config[g].metric, TRUE,
                  [i \in 1..Len(entriesOf(config[g])) |->
                      conditionOf(config[g].metric, entriesOf(config[g])[i], g, i)])]

\* Simple configurations of at most two groups, the complex configurations
\* they normalize to, and objects that mix both formats
SimpleConfigs ==
    {<< >>} \cup {<<g>> : g \in SimpleGroups}
    \cup {c \in {<<g, h>> : g \in SimpleGroups, h \in SimpleGroups} :
             c[1].metric # c[2].metric}
ConfigInputs ==
    SimpleConfigs
    \cup {normalizeConfig(<<g>>) : g \in SimpleGroups}
    \cup {<<c[1]>> \o normalizeConfig(<<c[2]>>) :
             c \in {x \in SimpleConfigs : Len(x) = 2 /\ Len(x[2].items) = 1}}
    \cup {normalizeConfig(<<c[1]>>) \o <<c[2]>> :
             c \in {x \in SimpleConfigs : Len(x) = 2 /\ Len(x[1].items) = 1}}

NormInit == normCall \in {[called |-> FALSE, config |-> c] : c \in ConfigInputs}

\* normalizeAchievements(config), then normalizeAchievements of its result
Normalize ==
    /\ ~normCall.called
    /\ normCall' = [called |-> TRUE, config |-> normCall.config,
                    result |-> normalizeConfig(normCall.config),
                    again |-> normalizeConfig(normalizeConfig(normCall.config))]
    /\ UNCHANGED <<engineVars, queueVars, adapterVars, importVars, twinVars, emitterVars,
                   reentryVars>>

NormNext == Normalize

InitNorm == NormInit /\ EngineHeld /\ QueueHeld /\ AdapterHeld /\ ImportHeld
            /\ TwinHeld /\ EmitterHeld /\ ReentryHeld
SpecNorm == InitNorm /\ [][NormNext]_vars

\* The configuration handed to the call is in the simple format throughout
SimpleCall ==
    /\ normCall.called
    /\ \A g \in 1..Len(normCall.config) : ~normCall.config[g].array

\* C28: normalizing the result of a normalization returns it unchanged: the
\* same metric groups, the same conditions, the same ids in the same order.
C28_NormalizeIdempotent == normCall.called => normCall.again = normCall.result

\* A simple configuration of two groups, one of them with a custom entry,
\* was normalized to something else, and normalizing that changed nothing
C28_Witness ==
    /\ SimpleCall
    /\ Len(normCall.config) = 2
    /\ \E i \in 1..Len(normCall.config[1].items) :
          hasCustomCondition(normCall.config[1].items[i])
    /\ normCall.result # normCall.config
    /\ normCall.again = normCall.result

\* The ids of a normalized configuration, group after group
IdsOf(config, g) ==
    [i \in 1..Len(config[g].items) |-> config[g].items[i].achievementId]

\* C29 as stated: for every simple configuration the result has exactly one
\* condition per declared entry, group by group, and the ids of the result
\* are pairwise distinct across all groups and keys.
C29_OnePerEntryDistinctIds ==
    SimpleCall =>
        LET c == normCall.config
            r == normCall.result
        IN  /\ Len(r) = Len(c)
            /\ \A g \in 1..Len(c) :
                  r[g].metric = c[g].metric /\ Len(r[g].items) = Len(c[g].items)
            /\ \A g, h \in 1..Len(r) :
                  \A i \in 1..Len(r[g].items), j \in 1..Len(r[h].items) :
                      (g # h \/ i # j) => IdsOf(r, g)[i] # IdsOf(r, h)[j]

\* An entry with no title, or with a condition that is not a function
Malformed(entry) == entry.title = "" \/ entry.condition = "string"

\* C30 as stated: an entry of a simple configuration that has no title, or
\* whose condition is present but not a function, does not become a
\* condition of the normalized configuration.
C30_MalformedEntryNotActivated ==
    SimpleCall =>
        \A g \in 1..Len(normCall.config) :
            \A i \in 1..Len(normCall.config[g].items) :
                Malformed(normCall.config[g].items[i])
                    => normCall.config[g].metric \o <<"_">> \o normCall.config[g].items[i].key
                           \notin Range(IdsOf(normCall.result, g))

====
